---- MODULE Spec2Model ----
(***************************************************************************)
(* Craftella storefront / back office: the HTTP client facade and the      *)
(* page controllers built on it (ProductsAdmin, Products, Cart, Checkout,  *)
(* Profile and the list views), as state machines.  One group of variables *)
(* per page; each page has its own specification in which the other pages  *)
(* are not mounted.                                                        *)
(***************************************************************************)
EXTENDS Integers, Sequences, FiniteSets, TLC

\* ------------------------------------------------------------------ bounds
\* Ids of the products the remote store may hold.
MaxProducts == 3

ProductIds == 1..MaxProducts

\* JavaScript's undefined / null, and "nothing pending" / "no message".
Undefined == "undefined"
None == "none"
\* A query parameter that is not in the URL (URLSearchParams.get gives null).
Absent == "<absent>"

\* ------------------------------------------------------------ sequences
RECURSIVE SeqToSet(_)
SeqToSet(s) == IF s = <<>> THEN {} ELSE {Head(s)} \cup SeqToSet(Tail(s))

\* Array.prototype.includes
Includes(s, x) == \E i \in 1..Len(s) : s[i] = x

\* Array.prototype.filter(e => e !== x)
RECURSIVE FilterOut(_, _)
FilterOut(s, x) ==
  IF s = <<>> THEN <<>>
  ELSE IF Head(s) = x THEN FilterOut(Tail(s), x)
       ELSE <<Head(s)>> \o FilterOut(Tail(s), x)

\* The ids of a set as an array in ascending order (the order the server lists them).
RECURSIVE Ascending(_)
Ascending(S) ==
  IF S = {} THEN <<>>
  ELSE LET m == CHOOSE x \in S : \A y \in S : x <= y
       IN <<m>> \o Ascending(S \ {m})

\* The first n elements of s.
Prefix(s, n) == SubSeq(s, 1, n)

\* ----------------------------------------------------------- HTTP facade
\* What the network hands to fetch(): the transport failed (fetch rejects), or a
\* response with a status and a body that is JSON or not.
Methods == {"GET", "POST", "PUT", "PATCH", "DELETE"}
Statuses == {200, 404, 500}

WireResponses ==
  [net : {"down"}, status : {0}, json : {FALSE}]
    \cup [net : {"up"}, status : Statuses, json : BOOLEAN]

\* Response.ok
IsOk(w) == w.net = "up" /\ w.status >= 200 /\ w.status <= 299

\* A request fails: a transport error or a non-2xx response.
Failed(w) == ~IsOk(w)

\* api.get / post / put / patch / del: fetch(...).then(res => res.json()).
\* fetch rejects only when the transport fails; res.json() rejects when the body
\* is not JSON; res.ok is never read, so the body of any response is returned.
ApiThen(w) ==
  IF w.net = "down" THEN [kind |-> "throw", error |-> "TypeError", status |-> Undefined]
  ELSE IF w.json THEN [kind |-> "return", error |-> None, status |-> Undefined]
  ELSE [kind |-> "throw", error |-> "SyntaxError", status |-> Undefined]

\* useApi.fetchData: throws on !response.ok before parsing; the Error thrown has
\* a message ("HTTP <status>: ...") and no status property.
HookThen(w) ==
  IF w.net = "down" THEN [kind |-> "throw", error |-> "TypeError", status |-> Undefined]
  ELSE IF ~IsOk(w) THEN [kind |-> "throw", error |-> "HTTP", status |-> Undefined]
  ELSE IF w.json THEN [kind |-> "return", error |-> None, status |-> Undefined]
  ELSE [kind |-> "throw", error |-> "SyntaxError", status |-> Undefined]

\* ------------------------------------------------------------ list responses
\* The parsed body of a list endpoint, as the JavaScript value the pages inspect:
\* a bare array (isArray, its elements in items) or an object that may have a
\* data array and may have a meta object.
BareArray(L) ==
  [isArray |-> TRUE, items |-> L, hasData |-> FALSE, data |-> <<>>,
   hasMeta |-> FALSE, current_page |-> 0, last_page |-> 0]

Envelope(L) ==
  [isArray |-> FALSE, items |-> <<>>, hasData |-> TRUE, data |-> L,
   hasMeta |-> FALSE, current_page |-> 0, last_page |-> 0]

EnvelopeMeta(L, cur, last) ==
  [isArray |-> FALSE, items |-> <<>>, hasData |-> TRUE, data |-> L,
   hasMeta |-> TRUE, current_page |-> cur, last_page |-> last]

\* An object with neither data nor meta, such as an error body {message: ...}.
PlainObject ==
  [isArray |-> FALSE, items |-> <<>>, hasData |-> FALSE, data |-> <<>>,
   hasMeta |-> FALSE, current_page |-> 0, last_page |-> 0]

\* ArrayOrData without the Array.isArray test: response.data || []
ArrayOrData_DataOnly(r) == IF r.hasData THEN r.data ELSE <<>>

\* Products.fetchProducts, NotificationsAdmin.fetchNotifications:
\*   Array.isArray(response) ? response : response.data || []
ArrayOrData(r) ==
  IF r.isArray THEN r.items ELSE IF r.hasData THEN r.data ELSE <<>>

\* Products.fetchProducts: response.meta || { current_page: 1, last_page: 1 }
MetaOrDefault(r) ==
  IF r.hasMeta THEN [current_page |-> r.current_page, last_page |-> r.last_page]
  ELSE [current_page |-> 1, last_page |-> 1]

\* ProductsAdmin / OrdersAdmin / Users:
\*   data = response.data || response; Array.isArray(data) ? data : data.data || []
DataOrSelf(r) ==
  IF r.hasData THEN r.data
  ELSE IF r.isArray THEN r.items
  ELSE <<>>

\* ProductsAdmin / OrdersAdmin / Users: response.meta?.last_page || 1
LastPageOrOne(r) ==
  IF r.hasMeta /\ r.last_page # 0 THEN r.last_page ELSE 1

\* ------------------------------------------------------------------ state
VARIABLES
  \* lib/api and hooks/useApi
  authToken,    \* localStorage's auth_token: Absent, or the token stored
  apiCall,      \* the api.* call awaiting its response: [on, method, url, auth, token],
                \* auth the Authorization header sent, token the auth_token at the call
  apiWire,      \* the response the last settled api.* call received: [on, w]
  apiOutcome,   \* how that call settled (ApiThen's kind), or None
  hookLoading,  \* useApi: loading
  hookData,     \* useApi: data is a parsed result (TRUE) or null (FALSE)
  hookError,    \* useApi: error's message kind, or None for null
  hookPending,  \* useApi: the number of fetchData calls awaiting their response
  hookWire,     \* the response the last settled fetchData received: [on, w]
  hookCall,     \* the last request fetchData issued: [on, auth, token]
  hookNewest    \* the most recently issued fetchData: "none", "pending", "ok", "failed"

facadeVars == <<authToken, apiCall, apiWire, apiOutcome, hookLoading, hookData,
                hookError, hookPending, hookWire, hookCall, hookNewest>>

VARIABLES
  \* pages/admin/ProductsAdmin
  paStore,       \* remote store: the ids of the products that exist
  paProducts,    \* products (the displayed page), as ids
  paSelected,    \* selectedProducts
  paLoading,     \* loading
  paCurrentPage, \* currentPage
  paTotalPages,  \* totalPages
  paMessage,     \* message: None, "success" or "error"
  paBulk,        \* handleBulkDelete: [on, ids, i], awaiting the i-th DELETE while on;
                 \* ids and i stay those of the last run once it has ended
  paFetching,    \* the pages of the fetchProducts calls awaiting their response, in order
  paLog,         \* the DELETE requests the last handleBulkDelete issued, in order
  paFailedAt,    \* index of the first of them that failed, or 0
  paRemoved,     \* the ids the remote store removed for them
  paMessages     \* the messages set since that handleBulkDelete started, in order

paVars == <<paStore, paProducts, paSelected, paLoading, paCurrentPage, paTotalPages,
            paMessage, paBulk, paFetching, paLog, paFailedAt, paRemoved, paMessages>>

VARIABLES
  \* pages/customer/Products
  products,      \* products, as item ids in display order
  loading,       \* loading
  hasMore,       \* hasMore
  filters,       \* filters: [category, minPrice, maxPrice, featuredOnly, sortBy]
  searchParams,  \* the URL query: each key a string, or Absent
  inflight,      \* the /products requests awaiting their response, in order of issue
  debounce,      \* the debounce effect's timer: [on, left, loading, filters], the last
                 \* two being what the callback's closure captured
  observer,      \* the IntersectionObserver on the last item: [on, filters, len], the
                 \* last two being what its callback's closure captured
  srvLastPage,   \* the catalogue: the server's last_page
  srvPageSize,   \* the catalogue: the number of items the server puts on a page
  prSinceEdit,   \* ticks since the last edit of a debounced field
  prBurstEdits,  \* edits of debounced fields since the timer last ran out
  prBurstIssued, \* requests the debounce callback issued for them
  prApplied,     \* the last applyFilters: [on, by, filters, query]
  prMounted,     \* the mount that read the URL it wrote: [on, filters, query]
  prLastMeta     \* the meta of the last response fetchProducts applied: [on, ...]

prVars == <<products, loading, hasMore, filters, searchParams, inflight, debounce,
            observer, srvLastPage, srvPageSize, prSinceEdit, prBurstEdits,
            prBurstIssued, prApplied, prMounted, prLastMeta>>

VARIABLES
  \* pages/customer/Cart and pages/customer/Checkout
  cart,          \* Cart: cart, [isNull, items, subtotal, tax, total]
  cartLoading,   \* Cart: loading
  cartPending,   \* Cart: the number of fetchCart calls awaiting GET /cart
  cartResp,      \* Cart: the /cart body the last fetchCart applied, [on, r]
  coCart,        \* Checkout: cart
  coLoading,     \* Checkout: loading
  coPending,     \* Checkout: fetchCheckoutData awaits its two responses
  coResp,        \* Checkout: the /cart body fetchCheckoutData applied, [on, r]
  coRoute        \* the route shown, "/cart" or "/checkout": which of the two is mounted

cartVars == <<cart, cartLoading, cartPending, cartResp, coCart, coLoading, coPending,
              coResp, coRoute>>

VARIABLES
  \* pages/customer/Profile
  addresses,     \* addresses: records [id, is_default]
  saving,        \* saving
  profMessage,   \* message: None, "success" or "error"
  profCall,      \* the address request awaiting its response: [on, op, id, addresses],
                 \* addresses being the array the handler's closure captured
  profDone       \* the set-default calls that succeeded since the last other change of
                 \* the list, latest last (at most two): [id, addresses]

profVars == <<addresses, saving, profMessage, profCall, profDone>>

VARIABLES
  \* a list view, run twice on the same content
  lvView,        \* which page it is
  lvBare,        \* its state when the responses are bare arrays
  lvEnv,         \* its state when the responses are {data: [...]} envelopes
  lvFetches      \* the number of responses applied

lvVars == <<lvView, lvBare, lvEnv, lvFetches>>

\* one fetch path: any of the list pages, its requests answered in any order
VARIABLES
  ftView,        \* which page it is
  ftState,       \* the page's state: list, loading and pagination, or cart and loading
  ftReqs,        \* its requests awaiting their response, in the order issued:
                 \* [seq, page, mount]
  ftIssued,      \* the number of requests it has issued
  ftLast,        \* the response applied last, if no request was issued since:
                 \* [on, seq, page, mount, w, items, before], items the items in its
                 \* body and before the list shown until then
  ftNewest       \* the page asked for by the request issued last

ftVars == <<ftView, ftState, ftReqs, ftIssued, ftLast, ftNewest>>

\* A page that writes: the page, its list state, what it reports, the write in
\* progress, the re-fetches pending, and the write answered last.
VARIABLES
  muView,        \* the page mounted, or None
  muPage,        \* its list state (for Cart and Checkout: cart, loading)
  muUi,          \* message, toast, orderPlaced, cardErrors, isProcessing, route
  muCall,        \* the write awaited: [on, op, page], page the handler's currentPage
  muRefetch,     \* the pages of the re-fetches not yet answered
  muCount,       \* writes sent so far
  muLast         \* the write answered last, if nothing happened since:
                 \* [on, op, w, page, refetched, before]
muVars == <<muView, muPage, muUi, muCall, muRefetch, muCount, muLast>>

\* ToastProvider
VARIABLES
  toast,         \* the toast cell: [on, id, type, duration], id the number of the
                 \* showToast call that set it; on = FALSE for null
  toTimers,      \* the timers set and neither fired nor cleared: [id, left]
  toCalls,       \* showToast calls so far
  toAge,         \* milliseconds since the most recent showToast call
  toCleared      \* what was left on the timer the most recent call cleared
toVars == <<toast, toTimers, toCalls, toAge, toCleared>>

\* Checkout, review step
VARIABLES
  isProcessing,  \* useState(false)
  orderPlaced,   \* useState(false)
  cardErrors,    \* useState(''): "" or the message set
  poForm,        \* useNewAddress, selectedAddress (0 for null), paymentMethod
  poPosts,       \* the POST /checkout requests awaiting their response: orderData
  poSent,        \* POST /checkout requests sent so far
  poRoute        \* the route, None while Checkout is not mounted
poVars == <<isProcessing, orderPlaced, cardErrors, poForm, poPosts, poSent, poRoute>>

\* ProductDetail
VARIABLES
  pdUser,          \* useAuth().user is set
  pdId,            \* useParams().id
  pdProduct,       \* useState(null): NoProduct, or the object set (id 0: no id)
  pdLoading,       \* useState(true)
  isInWishlist,    \* useState(false)
  relatedProducts, \* useState([]): ids
  pdStage,         \* where fetchProduct is: "product", "related", "done"
  pdChecks,        \* GET /wishlists requests awaiting their response: product.id
  pdPosts,         \* POST /wishlists requests awaiting their response
  pdSent,          \* handleToggleWishlist calls so far
  pdToast,         \* title of the most recent showToast, "" before the first
  pdRoute,         \* the route, None while ProductDetail is not mounted
  pdLast           \* the most recent handleToggleWishlist that ran to its end
pdVars ==
  <<pdUser, pdId, pdProduct, pdLoading, isInWishlist, relatedProducts, pdStage,
    pdChecks, pdPosts, pdSent, pdToast, pdRoute, pdLast>>

\* NotificationsAdmin
VARIABLES
  notifications,         \* useState([]): ids
  ntLoading,             \* useState(true)
  priorityFilter,        \* useState('all')
  readFilter,            \* useState('all')
  selectedNotifications, \* useState([])
  autoRefresh,           \* useState(true)
  ntMounted,             \* the page is mounted
  ntTimers,              \* the intervals set and not cleared: [id, priority, read, left],
                         \* the filters of the fetchNotifications each calls, the
                         \* milliseconds left until it is due
  ntCleanup,             \* the interval the pending cleanup clears, 0 for none
  ntInflight,            \* GET /admin/notifications requests awaiting their response
  ntSent,                \* fetchNotifications calls so far
  ntSince,               \* milliseconds since the most recent fetchNotifications call
  ntLast                 \* the most recent fetchNotifications call: [by, priority, read]
ntVars ==
  <<notifications, ntLoading, priorityFilter, readFilter, selectedNotifications,
    autoRefresh, ntMounted, ntTimers, ntCleanup, ntInflight, ntSent, ntSince, ntLast>>

vars ==
  <<facadeVars, paVars, prVars, cartVars, profVars, lvVars, ftVars, muVars, toVars, poVars,
    pdVars, ntVars>>

\* ------------------------------------------------------------ lib/api, useApi
\* The most requests of one kind awaiting their response at a time.
MaxInFlight == 2

Urls == {"/products", "/cart"}

Tokens == {"token-a", "token-b"}

\* The headers getAuthHeader returns: {} or { Authorization: `Bearer ${token}` }.
NoHeader == [present |-> FALSE, bearer |-> ""]
Bearer(token) == [present |-> TRUE, bearer |-> token]

\* getAuthHeader with the Authorization header on every call, token or not.
GetAuthHeader_Always(token) == Bearer(IF token = Absent THEN "" ELSE token)

\* getAuthHeader: token ? { Authorization: `Bearer ${token}` } : {}
\* (null and '' are falsy).
GetAuthHeader(token) ==
  IF token = Absent \/ token = "" THEN NoHeader ELSE Bearer(token)

NoCall ==
  [on |-> FALSE, method |-> "GET", url |-> "/products", auth |-> NoHeader,
   token |-> Absent]
NoHookCall == [on |-> FALSE, auth |-> NoHeader, token |-> Absent]
NoWire == [on |-> FALSE, w |-> [net |-> "down", status |-> 0, json |-> FALSE]]
NoOutcome == [kind |-> None, error |-> None, status |-> Undefined]

FacadeIdle ==
  /\ authToken = Absent
  /\ apiCall = NoCall
  /\ apiWire = NoWire
  /\ apiOutcome = NoOutcome
  /\ hookLoading = FALSE
  /\ hookData = FALSE
  /\ hookError = None
  /\ hookPending = 0
  /\ hookWire = NoWire
  /\ hookCall = NoHookCall
  /\ hookNewest = "none"

\* A component using useApi has mounted: loading starts true and the mount effect
\* has called fetchData.
FacadeInit ==
  /\ authToken \in Tokens \cup {Absent}
  /\ apiCall = NoCall
  /\ apiWire = NoWire
  /\ apiOutcome = NoOutcome
  /\ hookLoading = TRUE
  /\ hookData = FALSE
  /\ hookError = None
  /\ hookPending = 1
  /\ hookWire = NoWire
  /\ hookCall = [on |-> TRUE, auth |-> GetAuthHeader(authToken), token |-> authToken]
  /\ hookNewest = "pending"

\* A caller invokes api.get/post/put/patch/del(url): fetch is issued.
ApiRequest(m, u) ==
  /\ ~apiCall.on
  /\ apiCall' = [on |-> TRUE, method |-> m, url |-> u,
                  auth |-> GetAuthHeader(authToken), token |-> authToken]
  /\ apiWire' = NoWire
  /\ apiOutcome' = NoOutcome
  /\ UNCHANGED <<authToken, hookLoading, hookData, hookError, hookPending, hookWire,
                 hookCall, hookNewest>>
  /\ UNCHANGED <<paVars, prVars, cartVars, profVars, lvVars, ftVars, muVars, toVars, poVars, pdVars, ntVars>>

\* The network answers it and the promise settles.
ApiSettle(w) ==
  /\ apiCall.on
  /\ apiCall' = [apiCall EXCEPT !.on = FALSE]
  /\ apiWire' = [on |-> TRUE, w |-> w]
  /\ apiOutcome' = ApiThen(w)
  /\ UNCHANGED <<authToken, hookLoading, hookData, hookError, hookPending, hookWire,
                 hookCall, hookNewest>>
  /\ UNCHANGED <<paVars, prVars, cartVars, profVars, lvVars, ftVars, muVars, toVars, poVars, pdVars, ntVars>>

\* useApi.refetch (or the url effect): fetchData starts.
HookFetch ==
  /\ hookPending < MaxInFlight
  /\ hookLoading' = TRUE
  /\ hookPending' = hookPending + 1
  /\ hookCall' = [on |-> TRUE, auth |-> GetAuthHeader(authToken), token |-> authToken]
  /\ hookNewest' = "pending"
  /\ UNCHANGED <<authToken, apiCall, apiWire, apiOutcome, hookData, hookError,
                 hookWire>>
  /\ UNCHANGED <<paVars, prVars, cartVars, profVars, lvVars, ftVars, muVars, toVars, poVars, pdVars, ntVars>>

\* useApi.fetchData after its await: setData or setError, then setLoading(false).
\* The call that settles is the most recently issued one (newest) or an earlier one.
HookSettle(w, newest) ==
  /\ hookPending > 0
  /\ IF newest
       THEN /\ hookNewest = "pending"
            /\ hookNewest' = IF HookThen(w).kind = "return" THEN "ok" ELSE "failed"
       ELSE /\ hookPending > (IF hookNewest = "pending" THEN 1 ELSE 0)
            /\ UNCHANGED hookNewest
  /\ hookPending' = hookPending - 1
  /\ hookWire' = [on |-> TRUE, w |-> w]
  /\ IF HookThen(w).kind = "return"
       THEN hookData' = TRUE /\ UNCHANGED hookError
       ELSE hookError' = HookThen(w).error /\ UNCHANGED hookData
  /\ hookLoading' = FALSE
  /\ UNCHANGED <<authToken, apiCall, apiWire, apiOutcome, hookCall>>
  /\ UNCHANGED <<paVars, prVars, cartVars, profVars, lvVars, ftVars, muVars, toVars, poVars, pdVars, ntVars>>

\* Code outside these files stores a token under auth_token (login) or removes
\* the key (logout).
StoreToken(t) ==
  /\ authToken # t
  /\ authToken' = t
  /\ UNCHANGED <<apiCall, apiWire, apiOutcome, hookLoading, hookData, hookError,
                 hookPending, hookWire, hookCall, hookNewest>>
  /\ UNCHANGED <<paVars, prVars, cartVars, profVars, lvVars, ftVars, muVars, toVars, poVars, pdVars, ntVars>>

FacadeNext ==
  \/ \E m \in Methods, u \in Urls : ApiRequest(m, u)
  \/ \E w \in WireResponses : ApiSettle(w)
  \/ HookFetch
  \/ \E w \in WireResponses, newest \in BOOLEAN : HookSettle(w, newest)
  \/ \E t \in Tokens \cup {Absent} : StoreToken(t)

\* ------------------------------------------------------- pages/admin/ProductsAdmin
NoBulk == [on |-> FALSE, ids |-> <<>>, i |-> 0]

PaIdle ==
  /\ paStore = {}
  /\ paProducts = <<>>
  /\ paSelected = <<>>
  /\ paLoading = FALSE
  /\ paCurrentPage = 1
  /\ paTotalPages = 1
  /\ paMessage = None
  /\ paBulk = NoBulk
  /\ paFetching = <<>>
  /\ paLog = <<>>
  /\ paFailedAt = 0
  /\ paRemoved = {}
  /\ paMessages = <<>>

\* The page is mounted and its first fetch has shown the products of the store.
PaInit ==
  /\ paStore = ProductIds
  /\ paProducts = Ascending(ProductIds)
  /\ paSelected = <<>>
  /\ paLoading = FALSE
  /\ paCurrentPage = 1
  /\ paTotalPages = 1
  /\ paMessage = None
  /\ paBulk = NoBulk
  /\ paFetching = <<>>
  /\ paLog = <<>>
  /\ paFailedAt = 0
  /\ paRemoved = {}
  /\ paMessages = <<>>

\* toggleProductSelection(productId)
ToggleProductSelection(id) ==
  /\ Includes(paProducts, id)
  /\ paSelected' = IF Includes(paSelected, id) THEN FilterOut(paSelected, id)
                   ELSE Append(paSelected, id)
  /\ UNCHANGED <<paStore, paProducts, paLoading, paCurrentPage, paTotalPages, paMessage,
                 paBulk, paFetching, paLog, paFailedAt, paRemoved, paMessages>>
  /\ UNCHANGED <<facadeVars, prVars, cartVars, profVars, lvVars, ftVars, muVars, toVars, poVars, pdVars, ntVars>>

\* toggleSelectAll()
ToggleSelectAll ==
  /\ paProducts # <<>>
  /\ paSelected' = IF Len(paSelected) = Len(paProducts) THEN <<>> ELSE paProducts
  /\ UNCHANGED <<paStore, paProducts, paLoading, paCurrentPage, paTotalPages, paMessage,
                 paBulk, paFetching, paLog, paFailedAt, paRemoved, paMessages>>
  /\ UNCHANGED <<facadeVars, prVars, cartVars, profVars, lvVars, ftVars, muVars, toVars, poVars, pdVars, ntVars>>

\* handleBulkDelete(), confirmed by the user: the loop starts over the selection
\* its closure holds and awaits the first api.del.
HandleBulkDelete ==
  /\ ~paBulk.on
  /\ Len(paSelected) > 0
  /\ Len(paFetching) < MaxInFlight
  /\ paBulk' = [on |-> TRUE, ids |-> paSelected, i |-> 1]
  /\ paLog' = <<paSelected[1]>>
  /\ paFailedAt' = 0
  /\ paRemoved' = {}
  /\ paMessages' = <<>>
  /\ UNCHANGED <<paStore, paProducts, paSelected, paLoading, paCurrentPage, paTotalPages,
                 paMessage, paFetching>>
  /\ UNCHANGED <<facadeVars, prVars, cartVars, profVars, lvVars, ftVars, muVars, toVars, poVars, pdVars, ntVars>>

\* The i-th DELETE settles with w. The store removes the product when it answers
\* 2xx, and only a product it holds. The loop goes on while api.del returns; after
\* the last id it calls fetchProducts(currentPage) and sets the success message; a
\* rejection leaves the loop for the catch, which sets the error message.
BulkDeleteSettle(w) ==
  /\ paBulk.on
  /\ LET id == paBulk.ids[paBulk.i]
         n == Len(paBulk.ids)
     IN /\ IsOk(w) => id \in paStore
        /\ paStore' = IF IsOk(w) THEN paStore \ {id} ELSE paStore
        /\ paRemoved' = IF IsOk(w) THEN paRemoved \cup {id} ELSE paRemoved
        /\ paFailedAt' = IF Failed(w) /\ paFailedAt = 0 THEN paBulk.i ELSE paFailedAt
        /\ IF ApiThen(w).kind = "return"
             THEN IF paBulk.i < n
                    THEN /\ paBulk' = [paBulk EXCEPT !.i = paBulk.i + 1]
                         /\ paLog' = Append(paLog, paBulk.ids[paBulk.i + 1])
                         /\ UNCHANGED <<paLoading, paFetching, paMessage, paMessages>>
                    ELSE /\ paBulk' = [paBulk EXCEPT !.on = FALSE]
                         /\ paLoading' = TRUE
                         /\ paFetching' = Append(paFetching, paCurrentPage)
                         /\ paMessage' = "success"
                         /\ paMessages' = Append(paMessages, "success")
                         /\ UNCHANGED paLog
             ELSE /\ paBulk' = [paBulk EXCEPT !.on = FALSE]
                  /\ paMessage' = "error"
                  /\ paMessages' = Append(paMessages, "error")
                  /\ UNCHANGED <<paLoading, paFetching, paLog>>
  /\ UNCHANGED <<paProducts, paSelected, paCurrentPage, paTotalPages>>
  /\ UNCHANGED <<facadeVars, prVars, cartVars, profVars, lvVars, ftVars, muVars, toVars, poVars, pdVars, ntVars>>

\* The body GET /admin/products answers with: the store's products, in an envelope
\* with meta or as a bare array, or an error body when the status is not 2xx.
AdminProductBodies(w, page) ==
  IF IsOk(w)
    THEN {EnvelopeMeta(Ascending(paStore), page, 1), BareArray(Ascending(paStore))}
    ELSE {PlainObject}

\* fetchProducts(page) after its await: the try branch when api.get returned, the
\* catch branch when it threw, then setLoading(false).
PaFetchSettle(w) ==
  /\ paFetching # <<>>
  /\ paFetching' = Tail(paFetching)
  /\ IF ApiThen(w).kind = "return"
       THEN \E r \in AdminProductBodies(w, Head(paFetching)) :
              /\ paProducts' = DataOrSelf(r)
              /\ paTotalPages' = LastPageOrOne(r)
              /\ paCurrentPage' = Head(paFetching)
              /\ paSelected' = <<>>
       ELSE /\ paProducts' = <<>>
            /\ paTotalPages' = 1
            /\ UNCHANGED <<paCurrentPage, paSelected>>
  /\ paLoading' = FALSE
  /\ UNCHANGED <<paStore, paMessage, paBulk, paLog, paFailedAt, paRemoved, paMessages>>
  /\ UNCHANGED <<facadeVars, prVars, cartVars, profVars, lvVars, ftVars, muVars, toVars, poVars, pdVars, ntVars>>

PaNext ==
  \/ \E id \in ProductIds : ToggleProductSelection(id)
  \/ ToggleSelectAll
  \/ HandleBulkDelete
  \/ \E w \in WireResponses : BulkDeleteSettle(w)
  \/ \E w \in WireResponses : PaFetchSettle(w)

\* ------------------------------------------------------- pages/customer/Products
\* per_page, and the divisor the scroll callback derives the next page from.
PerPage == 12
\* A page size below per_page, for a server that puts fewer items on a page.
ShortPage == 5
\* The most pages the catalogue has.
MaxPage == 2
\* The debounce delay (300 ms), in clock ticks.
DebounceTicks == 3
\* The most edits made in a row, each before the previous one's timer ran out.
MaxBurst == 3

Categories == {"", "souvenir"}
Prices == {"", "10"}
SortOptions == {"created_at_desc", "price_asc", "price_desc", "name_asc"}
DebouncedFields == {"category", "minPrice", "maxPrice", "featuredOnly"}

FilterStates ==
  [category : Categories, minPrice : Prices, maxPrice : Prices,
   featuredOnly : BOOLEAN, sortBy : SortOptions]

DefaultFilters ==
  [category |-> "", minPrice |-> "", maxPrice |-> "", featuredOnly |-> FALSE,
   sortBy |-> "created_at_desc"]

\* String.prototype.split('_') on the sort options.
SplitUnderscore(s) ==
  CASE s = "created_at_desc" -> <<"created", "at", "desc">>
    [] s = "price_asc" -> <<"price", "asc">>
    [] s = "price_desc" -> <<"price", "desc">>
    [] s = "name_asc" -> <<"name", "asc">>

\* fetchProducts: the query string it builds from the filters of its closure.
\*   const [field, direction] = filters.sortBy.split('_')
QueryOf(f, page) ==
  [category |-> IF f.category # "" THEN f.category ELSE Absent,
   min_price |-> IF f.minPrice # "" THEN f.minPrice ELSE Absent,
   max_price |-> IF f.maxPrice # "" THEN f.maxPrice ELSE Absent,
   featured |-> IF f.featuredOnly THEN "1" ELSE Absent,
   sort_field |-> SplitUnderscore(f.sortBy)[1],
   sort_direction |-> SplitUnderscore(f.sortBy)[2],
   page |-> page,
   per_page |-> PerPage]

\* applyFilters: the URL query it writes (newParams).
UrlOf(f) ==
  [category |-> IF f.category # "" THEN f.category ELSE Absent,
   minPrice |-> IF f.minPrice # "" THEN f.minPrice ELSE Absent,
   maxPrice |-> IF f.maxPrice # "" THEN f.maxPrice ELSE Absent,
   featuredOnly |-> IF f.featuredOnly THEN "true" ELSE Absent,
   sortBy |-> IF f.sortBy # "created_at_desc" THEN f.sortBy ELSE Absent]

\* resetFilters: setSearchParams({})
EmptyUrl ==
  [category |-> Absent, minPrice |-> Absent, maxPrice |-> Absent,
   featuredOnly |-> Absent, sortBy |-> Absent]

\* searchParams.get(key) || fallback: null and '' both give the fallback.
GetOr(u, key, fallback) ==
  IF u[key] = Absent \/ u[key] = "" THEN fallback ELSE u[key]

\* FiltersFromUrl reading the flag as the API's '1' instead of the URL's 'true'.
FiltersFromUrl_FeaturedAsOne(u) ==
  [category |-> GetOr(u, "category", ""),
   minPrice |-> GetOr(u, "minPrice", ""),
   maxPrice |-> GetOr(u, "maxPrice", ""),
   featuredOnly |-> (u.featuredOnly = "1"),
   sortBy |-> GetOr(u, "sortBy", "created_at_desc")]

\* initialFilters: the filters read from the URL on mount.
FiltersFromUrl(u) ==
  [category |-> GetOr(u, "category", ""),
   minPrice |-> GetOr(u, "minPrice", ""),
   maxPrice |-> GetOr(u, "maxPrice", ""),
   featuredOnly |-> (u.featuredOnly = "true"),
   sortBy |-> GetOr(u, "sortBy", "created_at_desc")]

\* The debounce effect's dependencies.
DebounceDeps(f) == <<f.category, f.minPrice, f.maxPrice, f.featuredOnly>>

NoTimer == [on |-> FALSE, left |-> 0, loading |-> FALSE, filters |-> DefaultFilters]
NoObserver == [on |-> FALSE, filters |-> DefaultFilters, len |-> 0]
NoApplied ==
  [on |-> FALSE, by |-> None, filters |-> DefaultFilters,
   query |-> QueryOf(DefaultFilters, 1)]
NoMounted ==
  [on |-> FALSE, filters |-> DefaultFilters, query |-> QueryOf(DefaultFilters, 1)]
NoMeta == [on |-> FALSE, current_page |-> 0, last_page |-> 0]

Request(f, page, by) == [page |-> page, query |-> QueryOf(f, page), by |-> by]

PrIdle ==
  /\ products = <<>>
  /\ loading = FALSE
  /\ hasMore = FALSE
  /\ filters = DefaultFilters
  /\ searchParams = EmptyUrl
  /\ inflight = <<>>
  /\ debounce = NoTimer
  /\ observer = NoObserver
  /\ srvLastPage = 1
  /\ srvPageSize = 0
  /\ prSinceEdit = 0
  /\ prBurstEdits = 0
  /\ prBurstIssued = 0
  /\ prApplied = NoApplied
  /\ prMounted = NoMounted
  /\ prLastMeta = NoMeta

\* The component as it mounts on the URL u: state from useState's initial values,
\* the mount effect's fetchProducts(1) issued, the debounce effect's first timer
\* set; the scroll effect returns early (loading).
MountOn(u) ==
  /\ products' = <<>>
  /\ loading' = TRUE
  /\ hasMore' = TRUE
  /\ filters' = FiltersFromUrl(u)
  /\ searchParams' = u
  /\ inflight' = <<Request(FiltersFromUrl(u), 1, "mount")>>
  /\ debounce' = [on |-> TRUE, left |-> DebounceTicks, loading |-> TRUE,
                  filters |-> FiltersFromUrl(u)]
  /\ observer' = NoObserver
  /\ prSinceEdit' = 0
  /\ prBurstEdits' = 0
  /\ prBurstIssued' = 0
  /\ prLastMeta' = NoMeta

\* Mounted on /products with no query; the catalogue is any the bounds allow.
PrInit ==
  /\ products = <<>>
  /\ loading = TRUE
  /\ hasMore = TRUE
  /\ filters = DefaultFilters
  /\ searchParams = EmptyUrl
  /\ inflight = <<Request(DefaultFilters, 1, "mount")>>
  /\ debounce = [on |-> TRUE, left |-> DebounceTicks, loading |-> TRUE,
                 filters |-> DefaultFilters]
  /\ observer = NoObserver
  /\ srvLastPage \in 1..MaxPage
  /\ srvPageSize \in {ShortPage, PerPage}
  /\ prSinceEdit = 0
  /\ prBurstEdits = 0
  /\ prBurstIssued = 0
  /\ prApplied = NoApplied
  /\ prMounted = NoMounted
  /\ prLastMeta = NoMeta

\* The scroll effect, run after a render that changed [hasMore, loading,
\* products.length]: the old observer is disconnected; a new one is created unless
\* !hasMore || loading, and observes the last item if there is one.
ScrollEffect ==
  observer' =
    IF <<hasMore', loading', Len(products')>> = <<hasMore, loading, Len(products)>>
      THEN observer
    ELSE IF ~hasMore' \/ loading' \/ Len(products') = 0 THEN NoObserver
    ELSE [on |-> TRUE, filters |-> filters', len |-> Len(products')]

\* The debounce effect, run after a render that changed one of its dependencies:
\* clearTimeout of the old timer, setTimeout(..., 300) of a new one whose callback
\* closes over this render's loading and applyFilters.
DebounceEffect ==
  debounce' =
    IF DebounceDeps(filters') = DebounceDeps(filters) THEN debounce
    ELSE [on |-> TRUE, left |-> DebounceTicks, loading |-> loading',
          filters |-> filters']


nonPrVars == <<facadeVars, paVars, cartVars, profVars, lvVars, ftVars, muVars, toVars, poVars, pdVars, ntVars>>

FieldValues(field) ==
  CASE field = "category" -> Categories
    [] field = "minPrice" -> Prices
    [] field = "maxPrice" -> Prices
    [] field = "featuredOnly" -> BOOLEAN

\* The user edits one of the debounced fields of the filter panel:
\*   setFilters(prev => ({ ...prev, [field]: value }))
EditFilter(field, v) ==
  /\ v # filters[field]
  /\ debounce.on => prBurstEdits < MaxBurst
  /\ filters' = [filters EXCEPT ![field] = v]
  /\ UNCHANGED <<products, loading, hasMore, searchParams, inflight>>
  /\ DebounceEffect
  /\ ScrollEffect
  /\ prSinceEdit' = 0
  /\ prBurstEdits' = IF debounce.on /\ prBurstEdits > 0 THEN prBurstEdits + 1 ELSE 1
  /\ prBurstIssued' = IF debounce.on /\ prBurstEdits > 0 THEN prBurstIssued ELSE 0
  /\ UNCHANGED <<srvLastPage, srvPageSize, prApplied, prMounted, prLastMeta>>
  /\ UNCHANGED nonPrVars

\* handleSortChange: setFilters(prev => ({ ...prev, sortBy })); sortBy is no
\* dependency of the debounce effect, and nothing else reacts to it.
HandleSortChange(v) ==
  /\ v # filters.sortBy
  /\ filters' = [filters EXCEPT !.sortBy = v]
  /\ UNCHANGED <<products, loading, hasMore, searchParams, inflight>>
  /\ DebounceEffect
  /\ ScrollEffect
  /\ UNCHANGED <<srvLastPage, srvPageSize, prSinceEdit, prBurstEdits, prBurstIssued,
                 prApplied, prMounted, prLastMeta>>
  /\ UNCHANGED nonPrVars

\* applyFilters() of the render whose filters are f: setLoading(true), the URL
\* written, fetchProducts(1) issued with f.
ApplyFiltersWith(f, by) ==
  /\ Len(inflight) < MaxInFlight
  /\ loading' = TRUE
  /\ searchParams' = UrlOf(f)
  /\ inflight' = Append(inflight, Request(f, 1, by))
  /\ prApplied' = [on |-> TRUE, by |-> by, filters |-> f, query |-> QueryOf(f, 1)]
  /\ prMounted' = NoMounted
  /\ UNCHANGED <<products, hasMore, filters>>
  /\ ScrollEffect

\* The Apply button of the filter panel.
ApplyFiltersClick ==
  /\ UNCHANGED <<debounce, srvLastPage, srvPageSize, prSinceEdit, prBurstEdits,
                 prBurstIssued, prLastMeta>>
  /\ ApplyFiltersWith(filters, "apply")
  /\ UNCHANGED nonPrVars

\* One tick of the clock while the timer has more than one tick left.
Tick ==
  /\ debounce.on
  /\ debounce.left > 1
  /\ debounce' = [debounce EXCEPT !.left = debounce.left - 1]
  /\ prSinceEdit' = prSinceEdit + 1
  /\ UNCHANGED <<products, loading, hasMore, filters, searchParams, inflight, observer,
                 srvLastPage, srvPageSize, prBurstEdits, prBurstIssued, prApplied,
                 prMounted, prLastMeta>>
  /\ UNCHANGED nonPrVars

\* The timer's last tick: its callback runs,
\*   if (loading) return; applyFilters();
\* with the loading and the applyFilters of the render that set the timer.
DebounceFire ==
  /\ debounce.on
  /\ debounce.left = 1
  /\ debounce' = NoTimer
  /\ prSinceEdit' = prSinceEdit + 1
  /\ IF debounce.loading
       THEN UNCHANGED <<products, loading, hasMore, filters, searchParams, inflight,
                        observer, prBurstIssued, prApplied, prMounted>>
       ELSE /\ ApplyFiltersWith(debounce.filters, "debounce")
            /\ prBurstIssued' = prBurstIssued + 1
  /\ UNCHANGED <<srvLastPage, srvPageSize, prBurstEdits, prLastMeta>>
  /\ UNCHANGED nonPrVars

\* resetFilters without setSearchParams({}): the URL is left as it was.
ResetFilters_KeepingUrl ==
  /\ Len(inflight) < MaxInFlight
  /\ filters' = DefaultFilters
  /\ UNCHANGED searchParams
  /\ loading' = TRUE
  /\ inflight' = Append(inflight, Request(filters, 1, "reset"))
  /\ UNCHANGED <<products, hasMore>>
  /\ DebounceEffect
  /\ ScrollEffect
  /\ prSinceEdit' = 0
  /\ prBurstEdits' = 0
  /\ prBurstIssued' = 0
  /\ prApplied' = NoApplied
  /\ prMounted' = NoMounted
  /\ UNCHANGED <<srvLastPage, srvPageSize, prLastMeta>>
  /\ UNCHANGED nonPrVars

\* resetFilters(): setFilters(defaults), setSearchParams({}), setLoading(true) and
\* fetchProducts(1), the fetchProducts of the render the handler belongs to.
ResetFilters ==
  /\ Len(inflight) < MaxInFlight
  /\ filters' = DefaultFilters
  /\ searchParams' = EmptyUrl
  /\ loading' = TRUE
  /\ inflight' = Append(inflight, Request(filters, 1, "reset"))
  /\ UNCHANGED <<products, hasMore>>
  /\ DebounceEffect
  /\ ScrollEffect
  /\ prSinceEdit' = 0
  /\ prBurstEdits' = 0
  /\ prBurstIssued' = 0
  /\ prApplied' = NoApplied
  /\ prMounted' = NoMounted
  /\ UNCHANGED <<srvLastPage, srvPageSize, prLastMeta>>
  /\ UNCHANGED nonPrVars

\* The observer reports the last item intersecting the viewport:
\*   const page = Math.floor(products.length / 12) + 1; fetchProducts(page);
\* with the products and the fetchProducts of the render that created the observer.
\* fetchProducts sets no loading flag.
Intersect ==
  /\ observer.on
  /\ Len(inflight) < MaxInFlight
  /\ (observer.len \div PerPage) + 1 <= MaxPage + 1
  /\ inflight' = Append(inflight,
                        Request(observer.filters, (observer.len \div PerPage) + 1, "scroll"))
  /\ UNCHANGED <<products, loading, hasMore, filters, searchParams, debounce, observer,
                 srvLastPage, srvPageSize, prSinceEdit, prBurstEdits, prBurstIssued,
                 prApplied, prMounted, prLastMeta>>
  /\ UNCHANGED nonPrVars

\* The items the catalogue holds on a page.
PageItems(page) ==
  IF page <= srvLastPage
    THEN [k \in 1..srvPageSize |-> (page - 1) * srvPageSize + k]
    ELSE <<>>

\* The body GET /products answers a request for a page with: the page's items in
\* an envelope with meta, in an envelope without, or as a bare array; an error body
\* when the status is not 2xx.
ProductBodies(w, page) ==
  IF IsOk(w)
    THEN {EnvelopeMeta(PageItems(page), page, srvLastPage),
          Envelope(PageItems(page)), BareArray(PageItems(page))}
    ELSE {PlainObject}

\* HasMoreOf with the comparison off by one: current_page <= last_page
HasMoreOf_OrEqual(meta) == meta.current_page <= meta.last_page

\* setHasMore(meta.current_page < meta.last_page)
HasMoreOf(meta) == meta.current_page < meta.last_page

RemoveAt(s, i) == SubSeq(s, 1, i - 1) \o SubSeq(s, i + 1, Len(s))

\* fetchProducts(page) after its await, for the i-th request in flight (responses
\* arrive in any order): the try branch when api.get returned, the catch branch
\* when it threw, then setLoading(false).
FetchSettle(i, w) ==
  /\ i \in 1..Len(inflight)
  /\ inflight' = RemoveAt(inflight, i)
  /\ IF ApiThen(w).kind = "return"
       THEN \E r \in ProductBodies(w, inflight[i].page) :
              /\ products' = IF inflight[i].page = 1 THEN ArrayOrData(r)
                             ELSE products \o ArrayOrData(r)
              /\ hasMore' = HasMoreOf(MetaOrDefault(r))
              /\ prLastMeta' = [on |-> r.hasMeta, current_page |-> r.current_page,
                                last_page |-> r.last_page]
       ELSE /\ products' = IF inflight[i].page = 1 THEN <<>> ELSE products
            /\ UNCHANGED <<hasMore, prLastMeta>>
  /\ loading' = FALSE
  /\ UNCHANGED <<filters, searchParams, debounce>>
  /\ ScrollEffect
  /\ UNCHANGED <<srvLastPage, srvPageSize, prSinceEdit, prBurstEdits, prBurstIssued,
                 prApplied, prMounted>>
  /\ UNCHANGED nonPrVars

\* The page is loaded afresh from the URL it shows (a reload, a shared link): a
\* new component instance mounts; the old one's requests no longer reach it.
Remount ==
  /\ MountOn(searchParams)
  /\ prMounted' = [on |-> prApplied.on, filters |-> filters',
                   query |-> inflight'[1].query]
  /\ UNCHANGED <<srvLastPage, srvPageSize, prApplied>>
  /\ UNCHANGED nonPrVars

\* Browsing: scrolling, the filter panel's buttons, the clock.
PrScrollNext ==
  \/ Intersect
  \/ \E i \in 1..MaxInFlight, w \in WireResponses : FetchSettle(i, w)
  \/ ApplyFiltersClick
  \/ ResetFilters
  \/ Tick
  \/ DebounceFire

\* Editing the debounced filter fields.
PrDebounceNext ==
  \/ \E field \in DebouncedFields : \E v \in FieldValues(field) : EditFilter(field, v)
  \/ Tick
  \/ DebounceFire
  \/ \E i \in 1..MaxInFlight, w \in WireResponses : FetchSettle(i, w)

\* Mounted on /products with no query string; the catalogue has one short page.
PrInitOnLink ==
  /\ searchParams = UrlOf(DefaultFilters)
  /\ filters = FiltersFromUrl(searchParams)
  /\ products = <<>>
  /\ loading = TRUE
  /\ hasMore = TRUE
  /\ inflight = <<Request(filters, 1, "mount")>>
  /\ debounce = [on |-> TRUE, left |-> DebounceTicks, loading |-> TRUE,
                 filters |-> filters]
  /\ observer = NoObserver
  /\ srvLastPage = 1
  /\ srvPageSize = 1
  /\ prSinceEdit = 0
  /\ prBurstEdits = 0
  /\ prBurstIssued = 0
  /\ prApplied = NoApplied
  /\ prMounted = NoMounted
  /\ prLastMeta = NoMeta

\* No request awaits its response.
Settled == inflight = <<>>

\* Filters, the URL and reloads; the user acts on a settled page, the clock and
\* the network do not wait. Three of the four sort options are chosen from.
PrUrlNext ==
  \/ Settled /\ \E field \in {"category", "minPrice", "featuredOnly"} :
                   \E v \in FieldValues(field) : EditFilter(field, v)
  \/ Settled /\ \E v \in SortOptions \ {"price_desc"} : HandleSortChange(v)
  \/ Settled /\ ApplyFiltersClick
  \/ Settled /\ ResetFilters
  \/ Settled /\ Remount
  \/ Tick
  \/ DebounceFire
  \/ \E i \in 1..MaxInFlight, w \in WireResponses : FetchSettle(i, w)

\* ------------------------------------------- pages/customer/Cart and Checkout
\* The most items a cart response lists.
MaxCartItems == 2
\* The flat tax of the fallback, in percent (subtotal * 0.08).
TaxPercent == 8

\* Amounts are in hundredths of a cent, so that 8% of any amount of whole cents is
\* exact; Cents(c) is the amount of c cents.
Cents(c) == c * 100
\* A property the object does not have (undefined).
Missing == 0 - 1

ItemTotals == {Cents(1000), Cents(2000)}
ItemLists == UNION {[1..n -> ItemTotals] : n \in 0..MaxCartItems}
ServerSubtotals == {Missing, 0, Cents(500)}
ServerTaxes == {Missing, 0, Cents(45)}
ServerTotals == {Missing, 0, Cents(545)}

\* The fields of a cart object as the server sends it.
CartFields ==
  [hasItems : {TRUE}, items : ItemLists, subtotal : ServerSubtotals,
   tax : ServerTaxes, total : ServerTotals]
NoFields ==
  [hasItems |-> FALSE, items |-> <<>>, subtotal |-> Missing, tax |-> Missing,
   total |-> Missing]

\* The parsed body of GET /cart: the cart itself, or the cart under data.
CartBodies ==
  [hasData : {FALSE}, data : {NoFields}, self : CartFields]
    \cup [hasData : {TRUE}, data : CartFields, self : {NoFields}]
\* An error body {message: ...}: no data, no items, no totals.
CartErrorBody == [hasData |-> FALSE, data |-> NoFields, self |-> NoFields]

\* response.data || response
DataOrResponse(r) == IF r.hasData THEN r.data ELSE r.self

\* !x for an amount: undefined and 0 are falsy.
Falsy(x) == x = Missing \/ x = 0

\* items.reduce((sum, item) => sum + item.total, 0)
RECURSIVE SumTotals(_)
SumTotals(items) ==
  IF items = <<>> THEN 0 ELSE Head(items) + SumTotals(Tail(items))

\* TaxOf with the rate misplaced by a digit: subtotal * 0.8
TaxOf_EightTenths(subtotal) == (subtotal * TaxPercent) \div 10

\* subtotal * 0.08
TaxOf(subtotal) == (subtotal * TaxPercent) \div 100

NullCart ==
  [isNull |-> TRUE, hasItems |-> FALSE, items |-> <<>>, subtotal |-> Missing,
   tax |-> Missing, total |-> Missing]
\* Cart's catch: setCart({ items: [], subtotal: 0, tax: 0, total: 0 })
EmptyCart ==
  [isNull |-> FALSE, hasItems |-> TRUE, items |-> <<>>, subtotal |-> 0, tax |-> 0,
   total |-> 0]

\* cartData.items.reduce throws a TypeError when cartData has no items.
TotalsThrow(cartData) == Falsy(cartData.subtotal) /\ ~cartData.hasItems

\* Cart.fetchCart: the cart it sets from cartData,
\*   if (!cartData.subtotal) { ...computed... } else setCart(cartData)
CartOf(cartData) ==
  IF Falsy(cartData.subtotal)
    THEN [isNull |-> FALSE, hasItems |-> cartData.hasItems, items |-> cartData.items,
          subtotal |-> SumTotals(cartData.items),
          tax |-> TaxOf(SumTotals(cartData.items)),
          total |-> SumTotals(cartData.items) + TaxOf(SumTotals(cartData.items))]
    ELSE [isNull |-> FALSE, hasItems |-> cartData.hasItems, items |-> cartData.items,
          subtotal |-> cartData.subtotal, tax |-> cartData.tax,
          total |-> cartData.total]

\* Checkout.fetchCheckoutData: the same fallback, written out a second time.
CheckoutCartOf(cartData) ==
  IF Falsy(cartData.subtotal)
    THEN [isNull |-> FALSE, hasItems |-> cartData.hasItems, items |-> cartData.items,
          subtotal |-> SumTotals(cartData.items),
          tax |-> TaxOf(SumTotals(cartData.items)),
          total |-> SumTotals(cartData.items) + TaxOf(SumTotals(cartData.items))]
    ELSE [isNull |-> FALSE, hasItems |-> cartData.hasItems, items |-> cartData.items,
          subtotal |-> cartData.subtotal, tax |-> cartData.tax,
          total |-> cartData.total]

NoBody == [on |-> FALSE, r |-> CartErrorBody]

nonCartVars == <<facadeVars, paVars, prVars, profVars, lvVars, ftVars, muVars, toVars, poVars, pdVars, ntVars>>

CartIdle ==
  /\ cart = NullCart
  /\ cartLoading = FALSE
  /\ cartPending = 0
  /\ cartResp = NoBody
  /\ coCart = NullCart
  /\ coLoading = FALSE
  /\ coPending = FALSE
  /\ coResp = NoBody
  /\ coRoute = "/"

\* Cart is mounted (route /cart): cart null, loading, the mount effect's fetchCart
\* issued. Checkout is not mounted.
CartInit ==
  /\ cart = NullCart
  /\ cartLoading = TRUE
  /\ cartPending = 1
  /\ cartResp = NoBody
  /\ coCart = NullCart
  /\ coLoading = FALSE
  /\ coPending = FALSE
  /\ coResp = NoBody
  /\ coRoute = "/cart"

\* The route changes to /cart: Cart mounts and Checkout is gone.
CartMounts ==
  /\ cart' = NullCart
  /\ cartLoading' = TRUE
  /\ cartPending' = 1
  /\ cartResp' = NoBody
  /\ coCart' = NullCart
  /\ coLoading' = FALSE
  /\ coPending' = FALSE
  /\ coResp' = NoBody
  /\ coRoute' = "/cart"

\* The body GET /cart answers with.
CartBodiesFor(w) == IF IsOk(w) THEN CartBodies ELSE {CartErrorBody}

\* fetchCart() is called again (after updateQuantity or removeItem).
FetchCart ==
  /\ coRoute = "/cart"
  /\ cartPending < MaxInFlight
  /\ cartPending' = cartPending + 1
  /\ UNCHANGED <<cart, cartLoading, cartResp, coCart, coLoading, coPending, coResp,
                 coRoute>>
  /\ UNCHANGED nonCartVars

\* fetchCart() after its await: the try branch, or the catch branch when api.get
\* or the reduce threw; then setLoading(false).
FetchCartSettle(w) ==
  /\ coRoute = "/cart"
  /\ cartPending > 0
  /\ cartPending' = cartPending - 1
  /\ \E r \in CartBodiesFor(w) :
       IF ApiThen(w).kind = "return" /\ ~TotalsThrow(DataOrResponse(r))
         THEN /\ cart' = CartOf(DataOrResponse(r))
              /\ cartResp' = [on |-> TRUE, r |-> r]
         ELSE /\ cart' = EmptyCart
              /\ cartResp' = NoBody
  /\ cartLoading' = FALSE
  /\ UNCHANGED <<coCart, coLoading, coPending, coResp, coRoute>>
  /\ UNCHANGED nonCartVars

\* The user proceeds to /checkout: Checkout mounts and calls fetchCheckoutData;
\* Cart is gone.
CheckoutMount ==
  /\ coRoute = "/cart"
  /\ cart' = NullCart
  /\ cartLoading' = FALSE
  /\ cartPending' = 0
  /\ cartResp' = NoBody
  /\ coCart' = NullCart
  /\ coLoading' = TRUE
  /\ coPending' = TRUE
  /\ coResp' = NoBody
  /\ coRoute' = "/checkout"
  /\ UNCHANGED nonCartVars

\* fetchCheckoutData() after Promise.all of GET /cart (wc) and GET
\* /profile/addresses (wa): the try branch, or the catch branch (navigate('/cart'))
\* when either rejected or the reduce threw; then setLoading(false).
CheckoutSettle(wc, wa) ==
  /\ coRoute = "/checkout"
  /\ coPending
  /\ \E r \in CartBodiesFor(wc) :
       IF /\ ApiThen(wc).kind = "return"
          /\ ApiThen(wa).kind = "return"
          /\ ~TotalsThrow(DataOrResponse(r))
         THEN /\ coCart' = CheckoutCartOf(DataOrResponse(r))
              /\ coResp' = [on |-> TRUE, r |-> r]
              /\ coPending' = FALSE
              /\ coLoading' = FALSE
              /\ UNCHANGED <<cart, cartLoading, cartPending, cartResp, coRoute>>
         ELSE CartMounts
  /\ UNCHANGED nonCartVars

\* The user goes back to /cart from the checkout page.
BackToCart ==
  /\ coRoute = "/checkout"
  /\ CartMounts
  /\ UNCHANGED nonCartVars

CartNext ==
  \/ FetchCart
  \/ \E w \in WireResponses : FetchCartSettle(w)
  \/ CheckoutMount
  \/ \E wc \in WireResponses, wa \in WireResponses : CheckoutSettle(wc, wa)
  \/ BackToCart


\* ------------------------------------------------------ pages/customer/Profile
\* The most addresses a user has.
MaxAddresses == 3

AddressIds == 1..MaxAddresses

NoAddressCall == [on |-> FALSE, op |-> None, id |-> 0, addresses |-> <<>>]

nonProfVars == <<facadeVars, paVars, prVars, cartVars, lvVars, ftVars, muVars, toVars, poVars, pdVars, ntVars>>

ProfIdle ==
  /\ addresses = <<>>
  /\ saving = FALSE
  /\ profMessage = None
  /\ profCall = NoAddressCall
  /\ profDone = <<>>

\* The profile has loaded: the user's addresses with the flags the server sent.
ProfInit ==
  /\ addresses \in {[i \in AddressIds |-> [id |-> i, is_default |-> d[i]]] :
                      d \in [AddressIds -> BOOLEAN]}
  /\ saving = FALSE
  /\ profMessage = None
  /\ profCall = NoAddressCall
  /\ profDone = <<>>

HasAddress(list, id) == \E i \in 1..Len(list) : list[i].id = id

\* SetDefaultIn that does not clear the other flags:
\*   is_default: addr.is_default || addr.id === id
SetDefaultIn_KeepingOthers(list, id) ==
  [i \in 1..Len(list) |->
     [id |-> list[i].id, is_default |-> (list[i].is_default \/ list[i].id = id)]]

\* addresses.map(addr => ({ ...addr, is_default: addr.id === id }))
SetDefaultIn(list, id) ==
  [i \in 1..Len(list) |-> [id |-> list[i].id, is_default |-> (list[i].id = id)]]

\* addresses.filter(addr => addr.id !== id)
RECURSIVE WithoutAddress(_, _)
WithoutAddress(list, id) ==
  IF list = <<>> THEN <<>>
  ELSE IF Head(list).id = id THEN WithoutAddress(Tail(list), id)
       ELSE <<Head(list)>> \o WithoutAddress(Tail(list), id)

\* HandleSetDefault with the flags flipped at once, before the request is answered.
HandleSetDefault_Optimistic(id) ==
  /\ ~saving
  /\ HasAddress(addresses, id)
  /\ saving' = TRUE
  /\ profMessage' = None
  /\ profCall' = [on |-> TRUE, op |-> "set-default", id |-> id, addresses |-> addresses]
  /\ addresses' = SetDefaultIn(addresses, id)
  /\ UNCHANGED profDone
  /\ UNCHANGED nonProfVars

\* handleSetDefault(id), confirmed, up to its await. The button is disabled while
\* saving.
HandleSetDefault(id) ==
  /\ ~saving
  /\ HasAddress(addresses, id)
  /\ saving' = TRUE
  /\ profMessage' = None
  /\ profCall' = [on |-> TRUE, op |-> "set-default", id |-> id, addresses |-> addresses]
  /\ UNCHANGED <<addresses, profDone>>
  /\ UNCHANGED nonProfVars

\* handleDeleteAddress(id), confirmed, up to its await.
HandleDeleteAddress(id) ==
  /\ ~saving
  /\ HasAddress(addresses, id)
  /\ saving' = TRUE
  /\ profMessage' = None
  /\ profCall' = [on |-> TRUE, op |-> "delete", id |-> id, addresses |-> addresses]
  /\ UNCHANGED <<addresses, profDone>>
  /\ UNCHANGED nonProfVars

\* The last two entries of the successful set-default calls.
LastTwo(s) == IF Len(s) <= 2 THEN s ELSE SubSeq(s, Len(s) - 1, Len(s))

\* The handler after its await: the list is rewritten from the array its closure
\* holds and the success message set when the api call returned; the error message
\* when it threw; then setSaving(false).
AddressSettle(w) ==
  /\ profCall.on
  /\ profCall' = NoAddressCall
  /\ IF ApiThen(w).kind = "return"
       THEN /\ addresses' = IF profCall.op = "set-default"
                              THEN SetDefaultIn(profCall.addresses, profCall.id)
                              ELSE WithoutAddress(profCall.addresses, profCall.id)
            /\ profMessage' = "success"
       ELSE /\ profMessage' = "error"
            /\ UNCHANGED addresses
  /\ profDone' = IF profCall.op = "set-default" /\ IsOk(w) /\ ApiThen(w).kind = "return"
                   THEN LastTwo(Append(profDone,
                                       [id |-> profCall.id, addresses |-> addresses']))
                   ELSE <<>>
  /\ saving' = FALSE
  /\ UNCHANGED nonProfVars

ProfNext ==
  \/ \E id \in AddressIds : HandleSetDefault(id)
  \/ \E id \in AddressIds : HandleDeleteAddress(id)
  \/ \E w \in WireResponses : AddressSettle(w)

\* --------------------------------------------------------------- the list views
\* The most items a list response holds, and the most responses a view applies.
MaxListLen == 2
MaxFetches == 2

Views == {"Products", "ProductsAdmin", "OrdersAdmin", "Users", "NotificationsAdmin"}
ListItems == {1, 2}
ListContents == UNION {[1..n -> ListItems] : n \in 0..MaxListLen}

nonLvVars == <<facadeVars, paVars, prVars, cartVars, profVars, ftVars, muVars, toVars, poVars, pdVars, ntVars>>

\* A list page as it mounts: list empty, loading.
ViewMounted ==
  [list |-> <<>>, loading |-> TRUE, hasMore |-> TRUE, totalPages |-> 1,
   currentPage |-> 1, selected |-> <<>>]

LvIdle ==
  /\ lvView = None
  /\ lvBare = ViewMounted
  /\ lvEnv = ViewMounted
  /\ lvFetches = 0

LvInit ==
  /\ lvView \in Views
  /\ lvBare = ViewMounted
  /\ lvEnv = ViewMounted
  /\ lvFetches = 0

\* ViewApply with Products replacing its list on every page: setProducts(data).
ViewApply_AlwaysReplace(view, st, r, page) ==
  CASE view = "Products" ->
         [st EXCEPT !.list = ArrayOrData(r),
                    !.hasMore = HasMoreOf(MetaOrDefault(r)),
                    !.loading = FALSE]
    [] view = "NotificationsAdmin" ->
         [st EXCEPT !.list = ArrayOrData(r), !.selected = <<>>, !.loading = FALSE]
    [] view = "ProductsAdmin" ->
         [st EXCEPT !.list = DataOrSelf(r), !.totalPages = LastPageOrOne(r),
                    !.currentPage = page, !.selected = <<>>, !.loading = FALSE]
    [] view \in {"OrdersAdmin", "Users"} ->
         [st EXCEPT !.list = DataOrSelf(r), !.totalPages = LastPageOrOne(r),
                    !.currentPage = page, !.loading = FALSE]

\* What each page's fetch does to its state with the parsed response r to a
\* request for a page:
\*   Products.fetchProducts, NotificationsAdmin.fetchNotifications,
\*   ProductsAdmin.fetchProducts, OrdersAdmin.fetchOrders, Users.fetchUsers.
ViewApply(view, st, r, page) ==
  CASE view = "Products" ->
         [st EXCEPT !.list = IF page = 1 THEN ArrayOrData(r) ELSE st.list \o ArrayOrData(r),
                    !.hasMore = HasMoreOf(MetaOrDefault(r)),
                    !.loading = FALSE]
    [] view = "NotificationsAdmin" ->
         [st EXCEPT !.list = ArrayOrData(r), !.selected = <<>>, !.loading = FALSE]
    [] view = "ProductsAdmin" ->
         [st EXCEPT !.list = DataOrSelf(r), !.totalPages = LastPageOrOne(r),
                    !.currentPage = page, !.selected = <<>>, !.loading = FALSE]
    [] view \in {"OrdersAdmin", "Users"} ->
         [st EXCEPT !.list = DataOrSelf(r), !.totalPages = LastPageOrOne(r),
                    !.currentPage = page, !.loading = FALSE]

\* The user selects the first row shown (the admin pages with checkboxes).
LvSelect ==
  /\ lvView \in {"ProductsAdmin", "NotificationsAdmin"}
  /\ lvBare.list # <<>> /\ lvEnv.list # <<>>
  /\ lvBare' = [lvBare EXCEPT !.selected = <<lvBare.list[1]>>]
  /\ lvEnv' = [lvEnv EXCEPT !.selected = <<lvEnv.list[1]>>]
  /\ UNCHANGED <<lvView, lvFetches>>
  /\ UNCHANGED nonLvVars

\* The same content L answers a request for a page: as the bare array L in one
\* run and as the envelope {data: L} in the other.
LvRespond(L, page) ==
  /\ lvFetches < MaxFetches
  /\ lvFetches' = lvFetches + 1
  /\ lvBare' = ViewApply(lvView, lvBare, BareArray(L), page)
  /\ lvEnv' = ViewApply(lvView, lvEnv, Envelope(L), page)
  /\ UNCHANGED lvView
  /\ UNCHANGED nonLvVars

LvNext ==
  \/ \E L \in ListContents, page \in 1..MaxPage : LvRespond(L, page)
  \/ LvSelect

\* ------------------------------------------------------- one fetch path, any page
\* Each list page fetches on mount and again on paging, filtering or refreshing;
\* nothing cancels a request, and the responses arrive in any order.
FetchViews == Views \cup {"Cart"}

nonFtVars == <<facadeVars, paVars, prVars, cartVars, profVars, lvVars, muVars, toVars, poVars, pdVars, ntVars>>

\* A page as it mounts: useState defaults, loading true.
FtMounted(view) ==
  IF view = "Cart" THEN [cart |-> NullCart, loading |-> TRUE] ELSE ViewMounted

NoLast ==
  [on |-> FALSE, seq |-> 0, page |-> 0, mount |-> FALSE,
   w |-> [net |-> "down", status |-> 0, json |-> FALSE], items |-> <<>>,
   before |-> <<>>]

FtIdle ==
  /\ ftView = None
  /\ ftState = ViewMounted
  /\ ftReqs = <<>>
  /\ ftIssued = 0
  /\ ftLast = NoLast
  /\ ftNewest = 0

\* The page has mounted and its mount effect has called the fetch for page 1.
FtInit ==
  /\ ftView \in FetchViews
  /\ ftState = FtMounted(ftView)
  /\ ftReqs = <<[seq |-> 1, page |-> 1, mount |-> TRUE]>>
  /\ ftIssued = 1
  /\ ftLast = NoLast
  /\ ftNewest = 1

\* The pages a later fetch of the page can ask for: Products scrolls on or applies
\* filters (page 1), the paginated admin pages go to any page, NotificationsAdmin
\* and Cart have one page.
FtPages(view) ==
  IF view \in {"Products", "ProductsAdmin", "OrdersAdmin", "Users"}
    THEN 1..MaxPage ELSE {1}

\* What the page sets before the request goes out: setLoading(true) in the
\* admin fetches and in Products.applyFilters / resetFilters, nothing elsewhere.
FtStart(view, st, page) ==
  IF view \in {"ProductsAdmin", "OrdersAdmin", "Users"} \/ (view = "Products" /\ page = 1)
    THEN [st EXCEPT !.loading = TRUE]
    ELSE st

\* The catch branches without setLoading(false), as if it sat at the end of try.
ViewCatch_LoadingKept(view, st, page) ==
  CASE view = "Products" ->
         [st EXCEPT !.list = IF page = 1 THEN <<>> ELSE st.list]
    [] view = "NotificationsAdmin" ->
         [st EXCEPT !.list = <<>>]
    [] view \in {"ProductsAdmin", "OrdersAdmin", "Users"} ->
         [st EXCEPT !.list = <<>>, !.totalPages = 1]

\* The catch branch of each page's fetch, then setLoading(false).
ViewCatch(view, st, page) ==
  CASE view = "Products" ->
         [st EXCEPT !.list = IF page = 1 THEN <<>> ELSE st.list, !.loading = FALSE]
    [] view = "NotificationsAdmin" ->
         [st EXCEPT !.list = <<>>, !.loading = FALSE]
    [] view \in {"ProductsAdmin", "OrdersAdmin", "Users"} ->
         [st EXCEPT !.list = <<>>, !.totalPages = 1, !.loading = FALSE]

\* The bodies GET /cart answers with here: no item or two, the totals all present
\* or all missing.
FtCartBodies(w) ==
  IF IsOk(w)
    THEN {r \in CartBodies :
            LET d == IF r.hasData THEN r.data ELSE r.self
            IN  /\ d.items \in {<<>>, <<Cents(1000), Cents(2000)>>}
                /\ \/ d.subtotal = Missing /\ d.tax = Missing /\ d.total = Missing
                   \/ d.subtotal # Missing /\ d.tax # Missing /\ d.total # Missing
                        /\ (d.subtotal = 0 <=> d.total = 0) /\ (d.tax = 0 <=> d.total = 0)}
    ELSE {CartErrorBody}

\* The items the server put in a body: the array itself or the one under data; for
\* /cart the items of the cart, itself or under data.
BodyItems(view, r) ==
  IF view = "Cart" THEN (IF r.hasData THEN r.data.items ELSE r.self.items)
  ELSE IF r.isArray THEN r.items ELSE r.data

\* The list a page shows: its list state, for Cart and Checkout the cart's items.
ShownList(view, st) ==
  IF view \in {"Cart", "Checkout"} THEN st.cart.items ELSE st.list

\* The lists GET answers with here.
FtContents == {<<>>, <<1, 2>>, <<2, 1>>}

\* The parsed body of the response w to a request for a page.
FtBodies(view, w, page) ==
  IF view = "Cart" THEN FtCartBodies(w)
  ELSE IF IsOk(w)
    THEN UNION {{BareArray(L), Envelope(L)} \cup
                {EnvelopeMeta(L, page, last) : last \in 1..MaxPage} : L \in FtContents}
    ELSE {PlainObject}

\* The fetch of each page after its await, as a function of the page's state.
FtAfter(view, st, w, r, page) ==
  IF view = "Cart"
    THEN [cart |-> IF ApiThen(w).kind = "return" /\ ~TotalsThrow(DataOrResponse(r))
                     THEN CartOf(DataOrResponse(r)) ELSE EmptyCart,
          loading |-> FALSE]
  ELSE IF ApiThen(w).kind = "return"
    THEN ViewApply(view, st, r, page)
    ELSE ViewCatch(view, st, page)

\* The page issues another fetch while earlier ones may still be pending.
FtFetch(page) ==
  /\ Len(ftReqs) < MaxInFlight
  /\ ftIssued < MaxFetches
  /\ page \in FtPages(ftView)
  /\ ftReqs' = Append(ftReqs, [seq |-> ftIssued + 1, page |-> page, mount |-> FALSE])
  /\ ftIssued' = ftIssued + 1
  /\ ftState' = FtStart(ftView, ftState, page)
  /\ ftLast' = NoLast
  /\ ftNewest' = page
  /\ UNCHANGED ftView
  /\ UNCHANGED nonFtVars

\* FtSettle with the response to a superseded request discarded, as a page that
\* kept the latest request's number and compared it on arrival would do.
FtSettle_StaleDropped(i, w) ==
  /\ i \in 1..Len(ftReqs)
  /\ ftReqs' = RemoveAt(ftReqs, i)
  /\ \E r \in FtBodies(ftView, w, ftReqs[i].page) :
       /\ ftState' = IF ftReqs[i].seq < ftIssued THEN ftState
                     ELSE FtAfter(ftView, ftState, w, r, ftReqs[i].page)
       /\ ftLast' = [on |-> TRUE, seq |-> ftReqs[i].seq, page |-> ftReqs[i].page,
                     mount |-> ftReqs[i].mount, w |-> w,
                     items |-> BodyItems(ftView, r),
                     before |-> ShownList(ftView, ftState)]
  /\ UNCHANGED <<ftView, ftIssued, ftNewest>>
  /\ UNCHANGED nonFtVars

\* The i-th pending request is answered and its continuation runs.
FtSettle(i, w) ==
  /\ i \in 1..Len(ftReqs)
  /\ ftReqs' = RemoveAt(ftReqs, i)
  /\ \E r \in FtBodies(ftView, w, ftReqs[i].page) :
       /\ ftState' = FtAfter(ftView, ftState, w, r, ftReqs[i].page)
       /\ ftLast' = [on |-> TRUE, seq |-> ftReqs[i].seq, page |-> ftReqs[i].page,
                     mount |-> ftReqs[i].mount, w |-> w,
                     items |-> BodyItems(ftView, r),
                     before |-> ShownList(ftView, ftState)]
  /\ UNCHANGED <<ftView, ftIssued, ftNewest>>
  /\ UNCHANGED nonFtVars

FtNext ==
  \/ \E page \in 1..MaxPage : FtFetch(page)
  \/ \E i \in 1..MaxInFlight, w \in WireResponses : FtSettle(i, w)

\* ------------------------------------------------------- mutations and their re-fetch
\* A page sends one write (POST, PUT, PATCH or DELETE through api.*) and, when the
\* awaited promise resolves, re-fetches its list and reports success; when it
\* rejects, the catch block reports the error.
MutatingViews == {"ProductsAdmin", "OrdersAdmin", "Cart", "Checkout"}

nonMuVars == <<facadeVars, paVars, prVars, cartVars, profVars, lvVars, ftVars, toVars, poVars, pdVars, ntVars>>

\* The handlers of each page that write:
\*   ProductsAdmin.handleSubmit (create or update) and handleDeleteProduct,
\*   OrdersAdmin.handleStatusUpdate and handleAssignDriver,
\*   Cart.updateQuantity and removeItem, Checkout.handlePlaceOrder.
MuOps(view) ==
  CASE view = "ProductsAdmin" -> {"create", "update", "delete"}
    [] view = "OrdersAdmin" -> {"status", "assign-driver"}
    [] view = "Cart" -> {"updateQuantity", "removeItem"}
    [] view = "Checkout" -> {"placeOrder"}
    [] OTHER -> {}

\* What the page shows besides its list: the message banner of the admin pages,
\* the type of the toast Cart showed last, and Checkout's orderPlaced, cardErrors
\* (set or empty), isProcessing and route.
NoUi ==
  [message |-> None, toast |-> None, orderPlaced |-> FALSE, cardErrors |-> FALSE,
   isProcessing |-> FALSE, route |-> None]

NoMuCall == [on |-> FALSE, op |-> None, page |-> 0]

NoMuLast ==
  [on |-> FALSE, op |-> None, w |-> [net |-> "down", status |-> 0, json |-> FALSE],
   page |-> 0, refetched |-> FALSE, before |-> <<>>]

\* The cart both customer pages hold once loaded: two items, totals computed.
LoadedCart ==
  CartOf([hasItems |-> TRUE, items |-> <<Cents(1000), Cents(2000)>>,
          subtotal |-> Missing, tax |-> Missing, total |-> Missing])

MuIdle ==
  /\ muView = None
  /\ muPage = ViewMounted
  /\ muUi = NoUi
  /\ muCall = NoMuCall
  /\ muRefetch = <<>>
  /\ muCount = 0
  /\ muLast = NoMuLast

\* The page is Ready: an admin page on some page of its list, Cart and Checkout
\* with the cart loaded.
MuInit ==
  /\ muView \in MutatingViews
  /\ IF muView \in {"ProductsAdmin", "OrdersAdmin"}
       THEN \E p \in 1..MaxPage :
              muPage = [ViewMounted EXCEPT !.list = <<1, 2>>, !.loading = FALSE,
                                           !.currentPage = p, !.totalPages = MaxPage]
       ELSE muPage = [cart |-> LoadedCart, loading |-> FALSE]
  /\ muUi = [NoUi EXCEPT !.route = IF muView = "Checkout" THEN "/checkout" ELSE None]
  /\ muCall = NoMuCall
  /\ muRefetch = <<>>
  /\ muCount = 0
  /\ muLast = NoMuLast

\* A handler up to its await. chosen: the confirm() answer of handleDeleteProduct
\* and the order and driver picked for handleAssignDriver; quantity: the
\* newQuantity of updateQuantity. The early returns leave everything as it is;
\* the Place Order button is disabled while isProcessing and not rendered once
\* orderPlaced.
MuMutate(op, chosen, quantity) ==
  /\ op \in MuOps(muView)
  /\ ~muCall.on
  /\ muCount < MaxFetches
  /\ Len(muRefetch) < MaxInFlight
  /\ op \in {"delete", "assign-driver"} => chosen
  /\ op = "updateQuantity" => quantity >= 1
  /\ op = "placeOrder" =>
       ~muPage.cart.isNull /\ ~muUi.orderPlaced /\ ~muUi.isProcessing
  /\ muUi' = CASE op \in {"create", "update"} -> [muUi EXCEPT !.message = None]
               [] op = "placeOrder" -> [muUi EXCEPT !.isProcessing = TRUE]
               [] OTHER -> muUi
  /\ muCall' = [on |-> TRUE, op |-> op,
                page |-> IF muView \in {"ProductsAdmin", "OrdersAdmin"}
                           THEN muPage.currentPage ELSE 1]
  /\ muCount' = muCount + 1
  /\ muLast' = NoMuLast
  /\ UNCHANGED <<muView, muPage, muRefetch>>
  /\ UNCHANGED nonMuVars

\* The page after the awaited write resolved with a parsed body; hasId: the body
\* of POST /checkout has an id.
MuThen(view, ui, op, hasId) ==
  CASE view \in {"ProductsAdmin", "OrdersAdmin"} -> [ui EXCEPT !.message = "success"]
    [] view = "Cart" -> [ui EXCEPT !.toast = "success"]
    [] view = "Checkout" -> [ui EXCEPT !.orderPlaced = hasId \/ ui.orderPlaced,
                                       !.isProcessing = FALSE]

\* The catch block of each handler (and Checkout's finally).
MuCatch(view, ui, op) ==
  CASE view \in {"ProductsAdmin", "OrdersAdmin"} -> [ui EXCEPT !.message = "error"]
    [] view = "Cart" -> [ui EXCEPT !.toast = "error"]
    [] view = "Checkout" -> [ui EXCEPT !.cardErrors = TRUE, !.isProcessing = FALSE]

\* The rest of the handler once the write is answered. Every page but Checkout
\* re-fetches after a resolved write: fetchProducts(currentPage),
\* fetchOrders(currentPage), fetchCart(). An error body has no id.
MuSettle(w, hasId) ==
  /\ muCall.on
  /\ hasId => IsOk(w) /\ muCall.op = "placeOrder"
  /\ LET resolved == ApiThen(w).kind = "return"
         refetches == resolved /\ muView # "Checkout"
     IN  /\ muUi' = IF resolved THEN MuThen(muView, muUi, muCall.op, hasId)
                    ELSE MuCatch(muView, muUi, muCall.op)
         /\ muRefetch' = IF refetches THEN Append(muRefetch, muCall.page) ELSE muRefetch
         /\ muPage' = IF refetches THEN FtStart(muView, muPage, muCall.page) ELSE muPage
         /\ muLast' = [on |-> TRUE, op |-> muCall.op, w |-> w, page |-> muCall.page,
                       refetched |-> refetches, before |-> ShownList(muView, muPage)]
  /\ muCall' = NoMuCall
  /\ UNCHANGED <<muView, muCount>>
  /\ UNCHANGED nonMuVars

\* The i-th pending re-fetch is answered and the fetch's continuation runs.
MuRefetchSettle(i, w) ==
  /\ i \in 1..Len(muRefetch)
  /\ muRefetch' = RemoveAt(muRefetch, i)
  /\ \E r \in FtBodies(muView, w, muRefetch[i]) :
       muPage' = FtAfter(muView, muPage, w, r, muRefetch[i])
  /\ muLast' = NoMuLast
  /\ UNCHANGED <<muView, muUi, muCall, muCount>>
  /\ UNCHANGED nonMuVars

\* setTimeout(() => navigate('/orders'), 3000) after the order was placed.
MuNavigate ==
  /\ muView = "Checkout"
  /\ muUi.orderPlaced
  /\ muUi.route = "/checkout"
  /\ muUi' = [muUi EXCEPT !.route = "/orders"]
  /\ muLast' = NoMuLast
  /\ UNCHANGED <<muView, muPage, muCall, muRefetch, muCount>>
  /\ UNCHANGED nonMuVars

MuNext ==
  \/ \E op \in UNION {MuOps(v) : v \in MutatingViews}, chosen \in BOOLEAN,
        quantity \in 0..2 : MuMutate(op, chosen, quantity)
  \/ \E w \in WireResponses, hasId \in BOOLEAN : MuSettle(w, hasId)
  \/ \E i \in 1..MaxInFlight, w \in WireResponses : MuRefetchSettle(i, w)
  \/ MuNavigate

\* ------------------------------------------------------- contexts/ToastContext
\* ToastProvider: one toast cell, and an effect on [toast] that sets a timer for
\* the toast shown and clears it again when the toast changes. showToast builds a new
\* object each time, so every call changes the cell and re-runs the effect; the
\* effect of a render is taken to run with the render's commit.
\* Time is counted in steps of TickMs milliseconds, a third of the default.
DefaultDuration == 3000
TickMs == DefaultDuration \div 3
\* The most showToast calls followed.
MaxToasts == 3

ToastTypes == {"success", "error", "info"}
\* The duration argument of showToast: left out (Missing), or given.
DurationArgs == {Missing, TickMs, 2 * TickMs}

NoToast == [on |-> FALSE, id |-> 0, type |-> None, duration |-> 0]
NoCleared == [on |-> FALSE, left |-> 0]

nonToVars == <<facadeVars, paVars, prVars, cartVars, profVars, lvVars, ftVars, muVars, poVars, pdVars, ntVars>>

\* useState<Toast | null>(null), nothing shown yet.
ToastInit ==
  /\ toast = NoToast
  /\ toTimers = {}
  /\ toCalls = 0
  /\ toAge = 0
  /\ toCleared = NoCleared

\* (duration = 3000): the default applies when the argument is left out.
DurationOf(d) == IF d = Missing THEN DefaultDuration ELSE d

\* The effect without its cleanup: no timer is ever cleared.
ClearTimer_Never(timers, t) == timers

\* The cleanup of the effect that ran for toast t: clearTimeout(timer), nothing
\* to clear when t was null.
ClearTimer(timers, t) == {u \in timers : ~(t.on /\ u.id = t.id)}

\* What is left on the timer of toast t.
LeftOf(timers, t) ==
  IF \E u \in timers : u.id = t.id
    THEN [on |-> TRUE, left |-> (CHOOSE u \in timers : u.id = t.id).left]
    ELSE NoCleared

\* showToast(message, description, type, duration): setToast of a new toast;
\* then the effect: cleanup of the previous run, setTimeout for the new toast.
ShowToast(type, d) ==
  /\ toCalls < MaxToasts
  /\ toCalls' = toCalls + 1
  /\ toast' = [on |-> TRUE, id |-> toCalls + 1, type |-> type, duration |-> DurationOf(d)]
  /\ toTimers' = ClearTimer(toTimers, toast)
                   \cup {[id |-> toCalls + 1, left |-> DurationOf(d)]}
  /\ toAge' = 0
  /\ toCleared' = IF toast.on THEN LeftOf(toTimers, toast) ELSE NoCleared
  /\ UNCHANGED nonToVars

\* TickMs pass while a timer is pending; a timer that is due fires first.
ToastTick ==
  /\ toTimers # {}
  /\ \A u \in toTimers : u.left >= TickMs
  /\ toTimers' = {[id |-> u.id, left |-> u.left - TickMs] : u \in toTimers}
  /\ toAge' = toAge + TickMs
  /\ UNCHANGED <<toast, toCalls, toCleared>>
  /\ UNCHANGED nonToVars

\* A timer runs out: setToast(null). When that changes the cell, the cleanup of
\* the effect that ran for the toast removed runs (its timer has fired already) and
\* the effect sets nothing for null.
ToastTimeout ==
  \E u \in toTimers :
    /\ u.left = 0
    /\ toast' = NoToast
    /\ toTimers' = ClearTimer(toTimers, toast) \ {u}
    /\ UNCHANGED <<toCalls, toAge, toCleared>>
    /\ UNCHANGED nonToVars

ToastNext ==
  \/ \E type \in ToastTypes, d \in DurationArgs : ShowToast(type, d)
  \/ ToastTick
  \/ ToastTimeout

\* ------------------------------------------------------- Checkout: placing the order
\* The review step of Checkout with the cart loaded: the form's choices, the
\* Place Order button and handlePlaceOrder.
PaymentMethods == {"card", "paypal"}

nonPoVars ==
  <<facadeVars, paVars, prVars, cartVars, profVars, lvVars, ftVars, muVars, toVars, pdVars, ntVars>>

\* useState defaults, and selectedAddress as fetchCheckoutData leaves it: the
\* first address (1), or null (0) when the user has none.
PoForm(sel) == [useNewAddress |-> FALSE, selectedAddress |-> sel, paymentMethod |-> "card"]

PoIdle ==
  /\ isProcessing = FALSE
  /\ orderPlaced = FALSE
  /\ cardErrors = ""
  /\ poForm = PoForm(0)
  /\ poPosts = <<>>
  /\ poSent = 0
  /\ poRoute = None

PoInit ==
  /\ isProcessing = FALSE
  /\ orderPlaced = FALSE
  /\ cardErrors = ""
  /\ poForm \in {PoForm(0), PoForm(1)}
  /\ poPosts = <<>>
  /\ poSent = 0
  /\ poRoute = "/checkout"

\* The form is on screen: not yet replaced by the confirmation, not navigated away.
PoRendered == poRoute = "/checkout" /\ ~orderPlaced

\* A saved address is picked: setSelectedAddress(address.id); setUseNewAddress(false)
SelectAddress(id) ==
  /\ PoRendered
  /\ poForm' = [poForm EXCEPT !.selectedAddress = id, !.useNewAddress = FALSE]
  /\ UNCHANGED <<isProcessing, orderPlaced, cardErrors, poPosts, poSent, poRoute>>
  /\ UNCHANGED nonPoVars

\* "Use a new address": setUseNewAddress(true)
UseNewAddress ==
  /\ PoRendered
  /\ poForm' = [poForm EXCEPT !.useNewAddress = TRUE]
  /\ UNCHANGED <<isProcessing, orderPlaced, cardErrors, poPosts, poSent, poRoute>>
  /\ UNCHANGED nonPoVars

SetPaymentMethod(m) ==
  /\ PoRendered
  /\ poForm' = [poForm EXCEPT !.paymentMethod = m]
  /\ UNCHANGED <<isProcessing, orderPlaced, cardErrors, poPosts, poSent, poRoute>>
  /\ UNCHANGED nonPoVars

\* orderData: the address object (the new one, or the one found by id, undefined
\* when none is selected), replaced by the ids when a saved address is selected.
OrderData(form) ==
  IF ~form.useNewAddress /\ form.selectedAddress # 0
    THEN [address |-> None, address_id |-> form.selectedAddress,
          payment_method |-> form.paymentMethod]
    ELSE [address |-> IF form.useNewAddress THEN "new" ELSE Undefined,
          address_id |-> 0, payment_method |-> form.paymentMethod]

\* A Place Order button that is never disabled.
PlaceOrderEnabled_Always == TRUE

\* disabled={isProcessing}
PlaceOrderEnabled == ~isProcessing

\* handlePlaceOrder up to its await: setIsProcessing(true), POST /checkout.
HandlePlaceOrder ==
  /\ PoRendered
  /\ PlaceOrderEnabled
  /\ poSent < MaxFetches
  /\ isProcessing' = TRUE
  /\ poPosts' = Append(poPosts, OrderData(poForm))
  /\ poSent' = poSent + 1
  /\ UNCHANGED <<orderPlaced, cardErrors, poForm, poRoute>>
  /\ UNCHANGED nonPoVars

\* handlePlaceOrder after its await: orderPlaced when the body has an id,
\* cardErrors when the call threw, setIsProcessing(false) either way. An error
\* body has no id.
PlaceOrderSettle(i, w, hasId) ==
  /\ i \in 1..Len(poPosts)
  /\ hasId => IsOk(w)
  /\ poPosts' = RemoveAt(poPosts, i)
  /\ IF ApiThen(w).kind = "return"
       THEN /\ orderPlaced' = (orderPlaced \/ hasId)
            /\ UNCHANGED cardErrors
       ELSE /\ cardErrors' = "error"
            /\ UNCHANGED orderPlaced
  /\ isProcessing' = FALSE
  /\ UNCHANGED <<poForm, poSent, poRoute>>
  /\ UNCHANGED nonPoVars

\* setTimeout(() => navigate('/orders'), 3000) once the order is placed.
NavigateToOrders ==
  /\ poRoute = "/checkout"
  /\ orderPlaced
  /\ poRoute' = "/orders"
  /\ UNCHANGED <<isProcessing, orderPlaced, cardErrors, poForm, poPosts, poSent>>
  /\ UNCHANGED nonPoVars

PoNext ==
  \/ \E id \in {1, 2} : SelectAddress(id)
  \/ UseNewAddress
  \/ \E m \in PaymentMethods : SetPaymentMethod(m)
  \/ HandlePlaceOrder
  \/ \E i \in 1..MaxInFlight, w \in WireResponses, hasId \in BOOLEAN :
       PlaceOrderSettle(i, w, hasId)
  \/ NavigateToOrders


\* ------------------------------------------------------- pages/customer/ProductDetail
nonPdVars ==
  <<facadeVars, paVars, prVars, cartVars, profVars, lvVars, ftVars, muVars, toVars, poVars,
    ntVars>>

NoProduct == [loaded |-> FALSE, id |-> 0]
NoToggle == [on |-> FALSE, before |-> FALSE, after |-> FALSE, posted |-> FALSE]

PdIdle ==
  /\ pdUser = FALSE
  /\ pdId = 1
  /\ pdProduct = NoProduct
  /\ pdLoading = TRUE
  /\ isInWishlist = FALSE
  /\ relatedProducts = <<>>
  /\ pdStage = "done"
  /\ pdChecks = <<>>
  /\ pdPosts = <<>>
  /\ pdSent = 0
  /\ pdToast = ""
  /\ pdRoute = None
  /\ pdLast = NoToggle

\* The page as mounted: useState defaults, and the effect on [id, navigate] has
\* called fetchProduct, whose GET /products/:id is awaiting its response.
PdInit ==
  /\ pdUser \in BOOLEAN
  /\ pdId \in ProductIds
  /\ pdProduct = NoProduct
  /\ pdLoading = TRUE
  /\ isInWishlist = FALSE
  /\ relatedProducts = <<>>
  /\ pdStage = "product"
  /\ pdChecks = <<>>
  /\ pdPosts = <<>>
  /\ pdSent = 0
  /\ pdToast = ""
  /\ pdRoute = "/products/:id"
  /\ pdLast = NoToggle

\* fetchProduct after its first await. productData = response.data || response:
\* the product of a 2xx body, the error object (no id) of any other JSON body.
\* The effect on [user, product] then runs checkWishlist, which returns at once
\* without a user and otherwise sends GET /wishlists. A throw: navigate('/products')
\* and setLoading(false).
ProductSettle(w) ==
  /\ pdStage = "product"
  /\ IF ApiThen(w).kind = "return"
       THEN /\ pdProduct' = [loaded |-> TRUE, id |-> IF IsOk(w) THEN pdId ELSE 0]
            /\ pdStage' = "related"
            /\ pdChecks' = IF pdUser THEN Append(pdChecks, pdProduct'.id) ELSE pdChecks
            /\ UNCHANGED <<pdLoading, pdRoute>>
       ELSE /\ pdStage' = "done"
            /\ pdLoading' = FALSE
            /\ pdRoute' = "/products"
            /\ UNCHANGED <<pdProduct, pdChecks>>
  /\ UNCHANGED <<pdUser, pdId, isInWishlist, relatedProducts, pdPosts, pdSent, pdToast, pdLast>>
  /\ UNCHANGED nonPdVars

\* fetchProduct after its second await: the related list without this product
\* (relatedResponse.data || [] for an object body), or navigate('/products') on
\* a throw; setLoading(false) either way.
RelatedSettle(w, L) ==
  /\ pdStage = "related"
  /\ pdStage' = "done"
  /\ IF ApiThen(w).kind = "return"
       THEN /\ relatedProducts' =
                 SelectSeq(IF IsOk(w) THEN L ELSE <<>>, LAMBDA p : p # pdId)
            /\ UNCHANGED pdRoute
       ELSE /\ pdRoute' = "/products"
            /\ UNCHANGED relatedProducts
  /\ pdLoading' = FALSE
  /\ UNCHANGED <<pdUser, pdId, pdProduct, isInWishlist, pdChecks, pdPosts, pdSent, pdToast, pdLast>>
  /\ UNCHANGED nonPdVars

\* checkWishlist after its await: setIsInWishlist(some list has an item for
\* product.id); an object body without data counts as no lists; a throw is logged.
CheckWishlistSettle(i, w, listed) ==
  /\ i \in 1..Len(pdChecks)
  /\ pdChecks' = RemoveAt(pdChecks, i)
  /\ IF ApiThen(w).kind = "return"
       THEN isInWishlist' = (IsOk(w) /\ pdChecks[i] # 0 /\ listed)
       ELSE UNCHANGED isInWishlist
  /\ UNCHANGED <<pdUser, pdId, pdProduct, pdLoading, relatedProducts, pdStage, pdPosts, pdSent, pdToast, pdRoute, pdLast>>
  /\ UNCHANGED nonPdVars

\* The page shows the product: not the loading skeleton, not navigated away.
PdRendered == pdRoute = "/products/:id" /\ ~pdLoading /\ pdProduct.loaded

\* handleToggleWishlist up to its await or its end. Without a user: confirm(),
\* and navigate('/login') when accepted. With isInWishlist true: POST /wishlists.
\* With isInWishlist false: alert('Removed from wishlist'), setIsInWishlist(false).
HandleToggleWishlist(accept) ==
  /\ PdRendered
  /\ pdSent < MaxFetches
  /\ Len(pdPosts) < MaxInFlight
  /\ pdSent' = pdSent + 1
  /\ IF ~pdUser
       THEN /\ pdRoute' = IF accept THEN "/login" ELSE pdRoute
            /\ UNCHANGED <<isInWishlist, pdPosts, pdLast>>
       ELSE IF isInWishlist
         THEN /\ pdPosts' = Append(pdPosts, [before |-> isInWishlist])
              /\ UNCHANGED <<isInWishlist, pdRoute, pdLast>>
         ELSE /\ isInWishlist' = FALSE
              /\ pdLast' = [on |-> TRUE, before |-> isInWishlist, after |-> FALSE,
                            posted |-> FALSE]
              /\ UNCHANGED <<pdPosts, pdRoute>>
  /\ UNCHANGED <<pdUser, pdId, pdProduct, pdLoading, relatedProducts, pdStage, pdChecks, pdToast>>
  /\ UNCHANGED nonPdVars

\* handleToggleWishlist after its await: the success toast and
\* setIsInWishlist(true), or the failure toast when api.post threw.
ToggleWishlistSettle(i, w) ==
  /\ i \in 1..Len(pdPosts)
  /\ pdPosts' = RemoveAt(pdPosts, i)
  /\ IF ApiThen(w).kind = "return"
       THEN /\ pdToast' = "Added to Wishlist"
            /\ isInWishlist' = TRUE
            /\ pdLast' = [on |-> TRUE, before |-> pdPosts[i].before, after |-> TRUE,
                          posted |-> TRUE]
       ELSE /\ pdToast' = "Wishlist Update Failed"
            /\ UNCHANGED <<isInWishlist, pdLast>>
  /\ UNCHANGED <<pdUser, pdId, pdProduct, pdLoading, relatedProducts, pdStage, pdChecks, pdSent, pdRoute>>
  /\ UNCHANGED nonPdVars

PdNext ==
  \/ \E w \in WireResponses : ProductSettle(w)
  \/ \E w \in WireResponses, L \in {<<>>, Ascending(ProductIds)} : RelatedSettle(w, L)
  \/ \E i \in 1..MaxInFlight, w \in WireResponses, listed \in BOOLEAN :
       CheckWishlistSettle(i, w, listed)
  \/ \E accept \in BOOLEAN : HandleToggleWishlist(accept)
  \/ \E i \in 1..MaxInFlight, w \in WireResponses : ToggleWishlistSettle(i, w)


\* ------------------------------------------------------- pages/admin/NotificationsAdmin
nonNtVars ==
  <<facadeVars, paVars, prVars, cartVars, profVars, lvVars, ftVars, muVars, toVars, poVars,
    pdVars>>

\* setInterval(fetchNotifications, 30000)
RefreshMs == 30000
\* The step time passes in.
NtTickMs == RefreshMs \div 3
\* fetchNotifications calls in one run of the page, the mount's included.
NtBudget == MaxFetches + 1

PriorityValues == {"all", "high", "low"}
ReadValues == {"all", "unread", "read"}

NoNtFetch == [by |-> "none", priority |-> "all", read |-> "all"]

NtIdle ==
  /\ notifications = <<>>
  /\ ntLoading = TRUE
  /\ priorityFilter = "all"
  /\ readFilter = "all"
  /\ selectedNotifications = <<>>
  /\ autoRefresh = TRUE
  /\ ntMounted = FALSE
  /\ ntTimers = <<>>
  /\ ntCleanup = 0
  /\ ntInflight = <<>>
  /\ ntSent = 0
  /\ ntSince = 0
  /\ ntLast = NoNtFetch

\* fetchNotifications of the render with filters p, r: the query it builds.
NotificationsQuery(p, r) == [priority |-> p, read |-> r]

\* An effect run that leaves no interval to clear.
ClearInterval_Keeps(timers, id) == timers

\* The effect's cleanup: if (interval) clearInterval(interval).
ClearInterval(timers, id) ==
  IF id # 0 THEN SelectSeq(timers, LAMBDA t : t.id # id) ELSE timers

\* The effect's body for the render with filters p, r and autoRefresh a, as the
\* timers it leaves: the interval it sets, calling that render's
\* fetchNotifications, when autoRefresh is on.
SetUpInterval(timers, id, p, r, a) ==
  IF a THEN Append(timers, [id |-> id, priority |-> p, read |-> r, left |-> RefreshMs])
  ELSE timers

\* The page as mounted: useState defaults, and the effect has run once: it
\* called fetchNotifications and, autoRefresh being on, set the interval.
NtInit ==
  /\ notifications = <<>>
  /\ ntLoading = TRUE
  /\ priorityFilter = "all"
  /\ readFilter = "all"
  /\ selectedNotifications = <<>>
  /\ autoRefresh = TRUE
  /\ ntMounted = TRUE
  /\ ntTimers = SetUpInterval(<<>>, 1, "all", "all", TRUE)
  /\ ntCleanup = 1
  /\ ntInflight = <<NotificationsQuery("all", "all")>>
  /\ ntSent = 1
  /\ ntSince = 0
  /\ ntLast = [by |-> "effect", priority |-> "all", read |-> "all"]

\* A handler of the render with the current state has run: stale fetchNotifications
\* calls of that render (before), then the commit of filters p, r and autoRefresh
\* a. When one of the three differs from the render before, the effect's cleanup
\* runs and the effect runs again: fetchNotifications of the new render, and
\* the interval when autoRefresh is on.
NtCommit(p, r, a, before) ==
  LET changed == <<p, r, a>> # <<priorityFilter, readFilter, autoRefresh>>
      stale == IF before THEN <<NotificationsQuery(priorityFilter, readFilter)>> ELSE <<>>
      calls == Len(stale) + (IF changed THEN 1 ELSE 0)
  IN /\ ntMounted
     /\ ntSent + calls <= NtBudget
     /\ calls > 0
     /\ priorityFilter' = p
     /\ readFilter' = r
     /\ autoRefresh' = a
     /\ ntSent' = ntSent + calls
     /\ ntSince' = 0
     /\ IF changed
          THEN /\ ntInflight' = ntInflight \o stale \o <<NotificationsQuery(p, r)>>
               /\ ntTimers' =
                    SetUpInterval(ClearInterval(ntTimers, ntCleanup), ntSent' + 1, p, r, a)
               /\ ntCleanup' = IF a THEN ntSent' + 1 ELSE 0
               /\ ntLast' = [by |-> "effect", priority |-> p, read |-> r]
          ELSE /\ ntInflight' = ntInflight \o stale
               /\ ntLast' = [by |-> "handler", priority |-> priorityFilter,
                             read |-> readFilter]
               /\ UNCHANGED <<ntTimers, ntCleanup>>
     /\ UNCHANGED <<notifications, ntLoading, selectedNotifications, ntMounted>>
     /\ UNCHANGED nonNtVars

\* The priority select: setPriorityFilter(e.target.value)
SetPriorityFilter(v) == v # priorityFilter /\ NtCommit(v, readFilter, autoRefresh, FALSE)

\* The status select: setReadFilter(e.target.value)
SetReadFilter(v) == v # readFilter /\ NtCommit(priorityFilter, v, autoRefresh, FALSE)

\* toggleAutoRefresh: setAutoRefresh(!autoRefresh)
ToggleAutoRefresh == ntMounted /\ NtCommit(priorityFilter, readFilter, ~autoRefresh, FALSE)

\* Clear Filters, shown when nothing is listed: setPriorityFilter('all');
\* setReadFilter('all'); fetchNotifications() of the render clicked in.
ClearFilters == ~ntLoading /\ NtCommit("all", "all", autoRefresh, TRUE)

\* An interval comes due: the fetchNotifications it was set with runs.
IntervalFire(i) ==
  /\ i \in 1..Len(ntTimers)
  /\ ntTimers[i].left = 0
  /\ ntSent < NtBudget
  /\ ntTimers' = [ntTimers EXCEPT ![i].left = RefreshMs]
  /\ ntInflight' =
       Append(ntInflight, NotificationsQuery(ntTimers[i].priority, ntTimers[i].read))
  /\ ntSent' = ntSent + 1
  /\ ntSince' = 0
  /\ ntLast' = [by |-> "interval", priority |-> ntTimers[i].priority,
                read |-> ntTimers[i].read]
  /\ UNCHANGED <<notifications, ntLoading, priorityFilter, readFilter,
                 selectedNotifications, autoRefresh, ntMounted, ntCleanup>>
  /\ UNCHANGED nonNtVars

\* Time passes, no interval being due.
NtTick ==
  /\ \A i \in 1..Len(ntTimers) : ntTimers[i].left > 0
  /\ ntSince <= RefreshMs
  /\ ntTimers' = [i \in 1..Len(ntTimers) |->
                    [ntTimers[i] EXCEPT !.left = ntTimers[i].left - NtTickMs]]
  /\ ntSince' = ntSince + NtTickMs
  /\ UNCHANGED <<notifications, ntLoading, priorityFilter, readFilter,
                 selectedNotifications, autoRefresh, ntMounted, ntCleanup, ntInflight,
                 ntSent, ntLast>>
  /\ UNCHANGED nonNtVars

\* fetchNotifications after its await: the list of the body (response.data || []
\* for an object) and the selection cleared, or the empty list on a throw;
\* setLoading(false). Nothing is set once the page is unmounted.
NtFetchSettle(i, w, L) ==
  /\ i \in 1..Len(ntInflight)
  /\ ntInflight' = RemoveAt(ntInflight, i)
  /\ IF ~ntMounted
       THEN UNCHANGED <<notifications, selectedNotifications, ntLoading>>
       ELSE /\ ntLoading' = FALSE
            /\ IF ApiThen(w).kind = "return"
                 THEN /\ notifications' = (IF IsOk(w) THEN L ELSE <<>>)
                      /\ selectedNotifications' = <<>>
                 ELSE /\ notifications' = <<>>
                      /\ UNCHANGED selectedNotifications
  /\ UNCHANGED <<priorityFilter, readFilter, autoRefresh, ntMounted, ntTimers, ntCleanup,
                 ntSent, ntSince, ntLast>>
  /\ UNCHANGED nonNtVars

\* toggleNotificationSelection(notificationId)
ToggleNotificationSelection(id) ==
  /\ ntMounted
  /\ Includes(notifications, id)
  /\ selectedNotifications' =
       IF Includes(selectedNotifications, id)
         THEN SelectSeq(selectedNotifications, LAMBDA x : x # id)
         ELSE Append(selectedNotifications, id)
  /\ UNCHANGED <<notifications, ntLoading, priorityFilter, readFilter, autoRefresh,
                 ntMounted, ntTimers, ntCleanup, ntInflight, ntSent, ntSince, ntLast>>
  /\ UNCHANGED nonNtVars

\* The page unmounts: the effect's cleanup runs.
NtUnmount ==
  /\ ntMounted
  /\ ntMounted' = FALSE
  /\ ntTimers' = ClearInterval(ntTimers, ntCleanup)
  /\ ntCleanup' = 0
  /\ UNCHANGED <<notifications, ntLoading, priorityFilter, readFilter,
                 selectedNotifications, autoRefresh, ntInflight, ntSent, ntSince, ntLast>>
  /\ UNCHANGED nonNtVars

NtNext ==
  \/ \E v \in PriorityValues : SetPriorityFilter(v)
  \/ \E v \in ReadValues : SetReadFilter(v)
  \/ ToggleAutoRefresh
  \/ ClearFilters
  \/ \E i \in 1..NtBudget : IntervalFire(i)
  \/ NtTick
  \/ \E i \in 1..NtBudget, w \in WireResponses, L \in {<<>>, <<1>>} : NtFetchSettle(i, w, L)
  \/ ToggleNotificationSelection(1)
  \/ NtUnmount

\* ------------------------------------------------------------ specifications
\* Each page alone, the others not mounted.
InitFacade ==
  FacadeInit /\ PaIdle /\ PrIdle /\ CartIdle /\ ProfIdle /\ LvIdle /\ FtIdle /\ MuIdle /\ ToastInit /\ PoIdle /\ PdIdle /\ NtIdle

SpecFacade == InitFacade /\ [][FacadeNext]_vars

InitBulk ==
  FacadeIdle /\ PaInit /\ PrIdle /\ CartIdle /\ ProfIdle /\ LvIdle /\ FtIdle /\ MuIdle /\ ToastInit /\ PoIdle /\ PdIdle /\ NtIdle

SpecBulk == InitBulk /\ [][PaNext]_vars

InitScroll ==
  FacadeIdle /\ PaIdle /\ PrInit /\ CartIdle /\ ProfIdle /\ LvIdle /\ FtIdle /\ MuIdle /\ ToastInit /\ PoIdle /\ PdIdle /\ NtIdle

SpecScroll == InitScroll /\ [][PrScrollNext]_vars

InitDebounce ==
  FacadeIdle /\ PaIdle /\ PrInit /\ CartIdle /\ ProfIdle /\ LvIdle /\ FtIdle /\ MuIdle /\ ToastInit /\ PoIdle /\ PdIdle /\ NtIdle

SpecDebounce == InitDebounce /\ [][PrDebounceNext]_vars

\* The same page with time passing and the network answering: a timer that is
\* set runs out, and every request is answered or fails.
SpecDebounceLive ==
  /\ InitDebounce
  /\ [][PrDebounceNext]_vars
  /\ WF_vars(Tick)
  /\ WF_vars(DebounceFire)
  /\ WF_vars(\E i \in 1..MaxInFlight, w \in WireResponses : FetchSettle(i, w))

InitFilterUrl ==
  FacadeIdle /\ PaIdle /\ PrInitOnLink /\ CartIdle /\ ProfIdle /\ LvIdle /\ FtIdle /\ MuIdle /\ ToastInit /\ PoIdle /\ PdIdle /\ NtIdle

SpecFilterUrl == InitFilterUrl /\ [][PrUrlNext]_vars

InitCart ==
  FacadeIdle /\ PaIdle /\ PrIdle /\ CartInit /\ ProfIdle /\ LvIdle /\ FtIdle /\ MuIdle /\ ToastInit /\ PoIdle /\ PdIdle /\ NtIdle

SpecCart == InitCart /\ [][CartNext]_vars

InitProfile ==
  FacadeIdle /\ PaIdle /\ PrIdle /\ CartIdle /\ ProfInit /\ LvIdle /\ FtIdle /\ MuIdle /\ ToastInit /\ PoIdle /\ PdIdle /\ NtIdle

SpecProfile == InitProfile /\ [][ProfNext]_vars

InitListViews ==
  FacadeIdle /\ PaIdle /\ PrIdle /\ CartIdle /\ ProfIdle /\ LvInit /\ FtIdle /\ MuIdle /\ ToastInit /\ PoIdle /\ PdIdle /\ NtIdle

SpecListViews == InitListViews /\ [][LvNext]_vars

InitFetch ==
  FacadeIdle /\ PaIdle /\ PrIdle /\ CartIdle /\ ProfIdle /\ LvIdle /\ FtInit /\ MuIdle /\ ToastInit /\ PoIdle /\ PdIdle /\ NtIdle

SpecFetch == InitFetch /\ [][FtNext]_vars

InitMutate ==
  FacadeIdle /\ PaIdle /\ PrIdle /\ CartIdle /\ ProfIdle /\ LvIdle /\ FtIdle /\ MuInit /\ ToastInit /\ PoIdle /\ PdIdle /\ NtIdle

SpecMutate == InitMutate /\ [][MuNext]_vars

InitToast ==
  FacadeIdle /\ PaIdle /\ PrIdle /\ CartIdle /\ ProfIdle /\ LvIdle /\ FtIdle /\ MuIdle /\ ToastInit /\ PoIdle /\ PdIdle /\ NtIdle

InitPlaceOrder ==
  FacadeIdle /\ PaIdle /\ PrIdle /\ CartIdle /\ ProfIdle /\ LvIdle /\ FtIdle /\ MuIdle /\ ToastInit /\ PoInit /\ PdIdle /\ NtIdle

SpecPlaceOrder == InitPlaceOrder /\ [][PoNext]_vars

InitProductDetail ==
  FacadeIdle /\ PaIdle /\ PrIdle /\ CartIdle /\ ProfIdle /\ LvIdle /\ FtIdle /\ MuIdle /\ ToastInit /\ PoIdle /\ PdInit /\ NtIdle

SpecProductDetail == InitProductDetail /\ [][PdNext]_vars

InitNotifications ==
  FacadeIdle /\ PaIdle /\ PrIdle /\ CartIdle /\ ProfIdle /\ LvIdle /\ FtIdle /\ MuIdle /\ ToastInit /\ PoIdle /\ PdIdle /\ NtInit

SpecNotifications == InitNotifications /\ [][NtNext]_vars

\* The provider with time passing: a pending timer's time runs, and a timer that
\* is due fires.
SpecToast ==
  /\ InitToast
  /\ [][ToastNext]_vars
  /\ WF_vars(ToastTick)
  /\ WF_vars(ToastTimeout)

\* ------------------------------------------------------------ properties
NoDuplicates(s) == \A i, j \in 1..Len(s) : i # j => s[i] # s[j]

\* C1: when the k-th DELETE of a bulk delete fails (a non-2xx status or a transport
\* error), the loop stops there: exactly the first k requests were issued, in selection
\* order, the server removed exactly the first k-1 ids, and the run showed one error
\* message and no success message.
C1_BulkDeleteStopsAtFirstFailure ==
  (~paBulk.on /\ paFailedAt > 0) =>
      /\ paLog = Prefix(paBulk.ids, paFailedAt)
      /\ paRemoved = SeqToSet(Prefix(paBulk.ids, paFailedAt - 1))
      /\ paMessages = <<"error">>

\* C2: two infinite-scroll requests with the same query (same page, same filters) are
\* never in flight together, and the list never holds an item twice.
C2_NoPageRequestedTwice ==
  /\ \A i, j \in 1..Len(inflight) :
       (i # j /\ inflight[i].by = "scroll" /\ inflight[j].by = "scroll")
          => inflight[i].query # inflight[j].query
  /\ NoDuplicates(products)

\* C3: once the debounce timer armed by a burst of three edits has run out, exactly one
\* request was issued for the burst: a page-1 request carrying the final filter values,
\* sent DebounceTicks after the last edit.
C3_BurstGivesOneRequest ==
  (~debounce.on /\ prBurstEdits = 3) =>
      /\ prBurstIssued = 1
      /\ prApplied.on
      /\ prApplied.by = "debounce"
      /\ prApplied.query = QueryOf(filters, 1)
      /\ prSinceEdit = DebounceTicks

\* C4: after a response whose meta has current_page = last_page is applied, hasMore is
\* false; and every step that issues an infinite-scroll request starts with hasMore true.
C4_NoScrollPastLastPage ==
  /\ [](prLastMeta.on /\ prLastMeta.current_page = prLastMeta.last_page => ~hasMore)
  /\ [][(Len(inflight') > Len(inflight) /\ inflight'[Len(inflight')].by = "scroll")
          => hasMore]_vars

C4_Witness ==
  /\ prLastMeta.on
  /\ prLastMeta.current_page = prLastMeta.last_page
  /\ products # <<>>
  /\ ~hasMore
  /\ ~loading
  /\ ~observer.on

\* C5: a list view fed bare arrays and the same view fed {data: [...]} envelopes of the
\* same lists are in the same state after every response.
C5_BareArrayEqualsEnvelope == lvBare = lvEnv

C5_Witness ==
  /\ lvFetches = MaxFetches
  /\ lvBare.list # <<>>
  /\ lvEnv.list # <<>>

\* C6: when the applied /cart body has no subtotal, Cart and Checkout show
\* subtotal = the sum of item.total, tax = 8% of that subtotal, total = subtotal + tax.
C6_TotalsFallback ==
  /\ (cartResp.on /\ DataOrResponse(cartResp.r).subtotal = Missing) =>
        /\ cart.subtotal = SumTotals(DataOrResponse(cartResp.r).items)
        /\ cart.tax * 100 = cart.subtotal * 8
        /\ cart.total = cart.subtotal + cart.tax
  /\ (coResp.on /\ DataOrResponse(coResp.r).subtotal = Missing) =>
        /\ coCart.subtotal = SumTotals(DataOrResponse(coResp.r).items)
        /\ coCart.tax * 100 = coCart.subtotal * 8
        /\ coCart.total = coCart.subtotal + coCart.tax

\* two items of 10.00 and 20.00: subtotal 30.00, tax 2.40, total 32.40
C6_Witness ==
  /\ cartResp.on
  /\ DataOrResponse(cartResp.r).subtotal = Missing
  /\ cart.items = <<Cents(1000), Cents(2000)>>
  /\ cart.subtotal = Cents(3000)
  /\ cart.tax = Cents(240)
  /\ cart.total = Cents(3240)

\* C7: when the applied /cart body carries subtotal, tax and total, Cart and Checkout
\* show exactly those three values, a subtotal of 0 included.
C7_ServerTotalsVerbatim ==
  /\ (/\ cartResp.on
      /\ DataOrResponse(cartResp.r).subtotal # Missing
      /\ DataOrResponse(cartResp.r).tax # Missing
      /\ DataOrResponse(cartResp.r).total # Missing) =>
        /\ cart.subtotal = DataOrResponse(cartResp.r).subtotal
        /\ cart.tax = DataOrResponse(cartResp.r).tax
        /\ cart.total = DataOrResponse(cartResp.r).total
  /\ (/\ coResp.on
      /\ DataOrResponse(coResp.r).subtotal # Missing
      /\ DataOrResponse(coResp.r).tax # Missing
      /\ DataOrResponse(coResp.r).total # Missing) =>
        /\ coCart.subtotal = DataOrResponse(coResp.r).subtotal
        /\ coCart.tax = DataOrResponse(coResp.r).tax
        /\ coCart.total = DataOrResponse(coResp.r).total

\* C8: a page mounted on the URL that applyFilters wrote starts with the filters that
\* were applied, and its first request has the query of the request applyFilters sent.
C8_FilterUrlRoundTrip ==
  prMounted.on =>
      /\ prMounted.filters = prApplied.filters
      /\ prMounted.query = prApplied.query

C8_Witness ==
  /\ prMounted.on
  /\ prMounted.filters.category = "souvenir"
  /\ prMounted.filters.featuredOnly
  /\ prMounted.filters.sortBy # DefaultFilters.sortBy
  /\ searchParams = UrlOf(prMounted.filters)

\* C9: two successful set-default calls in a row on the same address leave the list as
\* it was after the first, with exactly one default address, the one chosen.
C9_SetDefaultIdempotent ==
  (Len(profDone) = 2 /\ profDone[1].id = profDone[2].id) =>
      /\ profDone[2].addresses = profDone[1].addresses
      /\ \A i \in 1..Len(profDone[2].addresses) :
           profDone[2].addresses[i].is_default
              <=> (profDone[2].addresses[i].id = profDone[2].id)
      /\ HasAddress(profDone[2].addresses, profDone[2].id)

C9_Witness ==
  /\ Len(profDone) = 2
  /\ profDone[1].id = profDone[2].id
  /\ addresses = profDone[2].addresses
  /\ Len(addresses) = MaxAddresses
  /\ profMessage = "success"

\* C10: a call that the server answers with a non-2xx status, or that the transport
\* fails, ends in an error, never in a normally returned value; the same for useApi.
C10_FacadeRaisesOnFailure ==
  /\ (apiWire.on /\ Failed(apiWire.w)) => apiOutcome.kind = "throw"
  /\ (hookWire.on /\ Failed(hookWire.w)) => hookError # None

\* C11: every request issued through api.* or useApi carries Authorization: Bearer
\* <token> exactly when auth_token was stored at the time of the call, with that
\* token; with no token stored the request is sent without the header.
C11_BearerIffTokenStored ==
  /\ apiCall.on =>
        IF apiCall.token = Absent THEN ~apiCall.auth.present
        ELSE apiCall.auth.present /\ apiCall.auth.bearer = apiCall.token
  /\ hookCall.on =>
        IF hookCall.token = Absent THEN ~hookCall.auth.present
        ELSE hookCall.auth.present /\ hookCall.auth.bearer = hookCall.token

C11_Witness ==
  /\ apiCall.on
  /\ apiCall.token = Absent
  /\ ~apiCall.auth.present
  /\ hookCall.on
  /\ hookCall.auth = Bearer("token-b")
  /\ authToken = "token-a"

\* C12: every step in which resetFilters runs (it issues the request marked "reset")
\* ends with each filter at its default and with the URL query string empty, whatever
\* the filters and the URL were before.
C12_ResetRestoresDefaults ==
  [][(Len(inflight') > Len(inflight) /\ inflight'[Len(inflight')].by = "reset")
       => (filters' = DefaultFilters /\ searchParams' = EmptyUrl)]_vars

\* resetFilters has just run on a page whose filters and URL were not the defaults
C12_Witness ==
  /\ inflight # <<>>
  /\ inflight[Len(inflight)].by = "reset"
  /\ inflight[Len(inflight)].query # QueryOf(DefaultFilters, 1)
  /\ filters = DefaultFilters
  /\ searchParams = EmptyUrl

\* C13: once the user stops editing the debounced fields, the page ends up Ready (no
\* request pending, loading false) on the result of a page-1 request that the debounce
\* sent with the filters as edited, also when the edits were made during a fetch.
C13_EditsAreEventuallyApplied ==
  (<>[][filters' = filters]_vars) =>
     <>[](prBurstEdits > 0 =>
            /\ prApplied.on
            /\ prApplied.by = "debounce"
            /\ prApplied.filters = filters
            /\ inflight = <<>>
            /\ ~loading)

\* The request was answered with a 2xx status and a JSON body.
Succeeded(w) == IsOk(w) /\ w.json

\* C14: right after the mount-time fetch of a list page has settled, the page is
\* Ready: loading is false, and the list is the response's items when the request
\* succeeded and the empty collection (for Cart: no items and zero totals) when it
\* failed.
C14_MountFetchEndsReady ==
  (ftLast.on /\ ftLast.mount) =>
      /\ ~ftState.loading
      /\ Succeeded(ftLast.w) => ShownList(ftView, ftState) = ftLast.items
      /\ Failed(ftLast.w) => ShownList(ftView, ftState) = <<>>
      /\ (ftView = "Cart" /\ Failed(ftLast.w)) =>
            (ftState.cart.subtotal = 0 /\ ftState.cart.tax = 0 /\ ftState.cart.total = 0)

\* a mount fetch answered 500 with an error body, another request still pending
C14_Witness ==
  /\ ftLast.on
  /\ ftLast.mount
  /\ ftLast.w = [net |-> "up", status |-> 500, json |-> TRUE]
  /\ ftView = "ProductsAdmin"
  /\ ftReqs # <<>>
  /\ ~ftState.loading

\* C15: a successful Products fetch of page 1 replaces the list with the response's
\* items, a successful fetch of a later page appends them in order, a failed fetch of
\* a later page leaves the list as it was and a failed fetch of page 1 empties it.
C15_ReplaceOrAppend ==
  (ftView = "Products" /\ ftLast.on) =>
      /\ (Succeeded(ftLast.w) /\ ftLast.page = 1) =>
            ftState.list = ftLast.items
      /\ (Succeeded(ftLast.w) /\ ftLast.page > 1) =>
            ftState.list = ftLast.before \o ftLast.items
      /\ (Failed(ftLast.w) /\ ftLast.page > 1) => ftState.list = ftLast.before
      /\ (Failed(ftLast.w) /\ ftLast.page = 1) => ftState.list = <<>>

C15_Witness ==
  /\ ftView = "Products"
  /\ ftLast.on
  /\ ftLast.page > 1
  /\ Succeeded(ftLast.w)
  /\ ftLast.before = <<1, 2>>
  /\ ftLast.items = <<2, 1>>
  /\ ftState.list = <<1, 2, 2, 1>>

\* C17: issuing a request cancels none of the pending ones, and the response to a
\* superseded request is applied like any other when it arrives: the page then shows
\* that response's list and page number, not those of the request issued last.
C17_StaleResponseApplied ==
  /\ [][Len(ftReqs') > Len(ftReqs) => SubSeq(ftReqs', 1, Len(ftReqs)) = ftReqs]_vars
  /\ []((/\ ftLast.on
         /\ ftLast.seq < ftIssued
         /\ Succeeded(ftLast.w)
         /\ ftView # "Cart"
         /\ ftView = "Products" => ftLast.page = 1) =>
           /\ ftState.list = ftLast.items
           /\ ftView \in {"ProductsAdmin", "OrdersAdmin", "Users"} =>
                ftState.currentPage = ftLast.page)

\* F1 (page 1) and F2 (page 2) issued in that order and answered in the order F2,
\* F1: the page is Ready on F1's list and on page 1 though page 2 was asked for last
C17_Witness ==
  /\ ftView = "ProductsAdmin"
  /\ ftReqs = <<>>
  /\ ftIssued = 2
  /\ ftNewest = 2
  /\ ftLast.on
  /\ ftLast.seq = 1
  /\ Succeeded(ftLast.w)
  /\ ftLast.items = <<1, 2>>
  /\ ftState.list = <<1, 2>>
  /\ ftState.currentPage = 1
  /\ ~ftState.loading

\* C16: in ProductsAdmin (create, update, delete) and OrdersAdmin (status update,
\* driver assignment) a write that succeeded is followed by a re-fetch of the
\* current page and a success message; a write that failed (a non-2xx status or a
\* transport error) sets an error message, issues no re-fetch and leaves the list
\* shown as it was.
C16_AdminMutationOutcome ==
  (muLast.on /\ muView \in {"ProductsAdmin", "OrdersAdmin"}) =>
      /\ Succeeded(muLast.w) =>
           /\ muUi.message = "success"
           /\ muLast.refetched
           /\ muRefetch # <<>>
           /\ muRefetch[Len(muRefetch)] = muPage.currentPage
      /\ Failed(muLast.w) =>
           /\ muUi.message = "error"
           /\ ~muLast.refetched
           /\ muPage.list = muLast.before

\* C20: a write of Cart (updateQuantity, removeItem) or Checkout (handlePlaceOrder)
\* that failed (a non-2xx status or a transport error) ends with the error shown, the
\* error toast or a cardErrors message, and never with the success toast or
\* orderPlaced set.
C20_FailedCustomerMutationShowsError ==
  (muLast.on /\ muView \in {"Cart", "Checkout"} /\ Failed(muLast.w)) =>
      IF muView = "Cart"
        THEN muUi.toast = "error"
        ELSE muUi.cardErrors /\ ~muUi.orderPlaced

\* C18 as stated: the flags are flipped locally (the target true, all others false)
\* before the response to POST /profile/addresses/{id}/set-default is received.
C18_FlipBeforeResponse ==
  (profCall.on /\ profCall.op = "set-default") =>
      addresses = SetDefaultIn(profCall.addresses, profCall.id)

\* C18 amended: set-default is not optimistic. While the POST is pending the address
\* list is the one the handler was called with; the list changes only in the step
\* that receives the response, and there the flags are flipped exactly when the
\* awaited call resolved (success message), and left alone when it rejected.
C18_FlipAfterResponse ==
  /\ []((profCall.on /\ profCall.op = "set-default") => addresses = profCall.addresses)
  /\ [][(addresses' # addresses) => (profCall.on /\ ~profCall'.on)]_vars
  /\ [][(profCall.on /\ profCall.op = "set-default" /\ ~profCall'.on) =>
          addresses' = IF profMessage' = "success"
                         THEN SetDefaultIn(profCall.addresses, profCall.id)
                         ELSE addresses]_vars

\* a set-default that would change the flags is awaiting its response, the list
\* still as it was
C18_Witness ==
  /\ profCall.on
  /\ profCall.op = "set-default"
  /\ saving
  /\ addresses = profCall.addresses
  /\ SetDefaultIn(addresses, profCall.id) # addresses

\* C19: ToastProvider holds at most one toast, the one of the most recent
\* showToast call; the only timer pending is that toast's, started at that call; the
\* toast is removed exactly when `duration` ms (3000 when the argument is left out)
\* have passed since the most recent call, never earlier by the timer of a toast
\* it replaced; and every toast shown is eventually removed.
C19_LastToastWinsAndExpires ==
  /\ [](toast.on => /\ toast.id = toCalls
                    /\ toTimers = {[id |-> toast.id, left |-> toast.duration - toAge]})
  /\ [](~toast.on => toTimers = {})
  /\ [][(toast.on /\ ~toast'.on) => toAge = toast.duration]_vars
  /\ [][(toCalls' = toCalls + 1) =>
          (toast'.on /\ toast'.id = toCalls'
             /\ toast'.duration \in {TickMs, 2 * TickMs, DefaultDuration})]_vars
  /\ (toast.on ~> ~toast.on)

\* the second toast, shown with the default duration, replaced the first when that
\* one had a second left, and is still shown two seconds later
C19_Witness ==
  /\ toast.on
  /\ toast.id = 2
  /\ toast.duration = DefaultDuration
  /\ toCleared.on
  /\ toCleared.left = TickMs
  /\ toAge = 2 * TickMs
  /\ toTimers = {[id |-> 2, left |-> TickMs]}

\* C21: in Checkout at most one POST /checkout is in flight at any time:
\* isProcessing is true exactly while a request is in flight (from the moment it is
\* issued until it settles, false again after success or failure), and a request
\* is issued only while isProcessing is false, the button being disabled otherwise.
C21_OnePlaceOrderInFlight ==
  /\ [](Len(poPosts) <= 1)
  /\ [](isProcessing <=> Len(poPosts) = 1)
  /\ [][(Len(poPosts') > Len(poPosts)) => (~isProcessing /\ isProcessing')]_vars
  /\ [][(Len(poPosts') < Len(poPosts)) => ~isProcessing']_vars

\* a second order is being placed after the first request failed: one request in
\* flight, the button disabled, the first failure still shown
C21_Witness ==
  /\ poSent = 2
  /\ Len(poPosts) = 1
  /\ isProcessing
  /\ cardErrors = "error"
  /\ ~orderPlaced

\* C22: the page-1 request a filter reset issues carries the default filter
\* values, not the values in effect before the reset.
C22_ResetRequestsDefaults ==
  \A i \in 1..Len(inflight) :
     inflight[i].by = "reset" => inflight[i].query = QueryOf(DefaultFilters, 1)

\* C23: a change of the sort option on the Products page issues at once, with no
\* further user action, a page-1 request whose sort parameters are those of the
\* option chosen.
C23_SortChangeRefetches ==
  [][(filters'.sortBy # filters.sortBy
        /\ [filters' EXCEPT !.sortBy = filters.sortBy] = filters
        /\ searchParams' = searchParams)
       => /\ Len(inflight') = Len(inflight) + 1
          /\ inflight'[Len(inflight')].page = 1
          /\ inflight'[Len(inflight')].query = QueryOf(filters', 1)]_vars

\* C24: every product request names as sort_field the field of the sort option
\* (created_at, price or name) and as sort_direction its direction, asc or desc.
C24_SortParametersWellFormed ==
  \A i \in 1..Len(inflight) :
     /\ inflight[i].query.sort_field \in {"created_at", "price", "name"}
     /\ inflight[i].query.sort_direction \in {"asc", "desc"}

\* C25: every infinite-scroll request asks for exactly the page after the last page
\* loaded (the current_page of the meta applied last, plus one), whatever number of
\* items a page holds; so no page is skipped and none is put into the list twice.
C25_ScrollAsksForNextPage ==
  [][(Len(inflight') > Len(inflight) /\ inflight'[Len(inflight')].by = "scroll"
        /\ prLastMeta.on)
       => inflight'[Len(inflight')].page = prLastMeta.current_page + 1]_vars

\* C26: in the paginated admin lists 1 <= currentPage <= totalPages holds in every
\* state reached through fetches and mutations followed by a re-fetch, also when the
\* server's last_page has shrunk below the current page and when a fetch fails.
C26_CurrentPageWithinTotal ==
  muView \in {"ProductsAdmin", "OrdersAdmin"} =>
      (1 <= muPage.currentPage /\ muPage.currentPage <= muPage.totalPages)

\* C27: in ProductsAdmin, after any sequence of selection toggles, fetches (answered
\* or failed) and bulk operations, selectedProducts holds no id twice and only ids of
\* products in the list shown.
C27_SelectionWithinList ==
  /\ NoDuplicates(paSelected)
  /\ \A i \in 1..Len(paSelected) : Includes(paProducts, paSelected[i])

\* C28: in ProductDetail, for a logged-in user and a loaded product, a
\* handleToggleWishlist that ran to its end without a throw leaves isInWishlist the
\* negation of what it was: not in the wishlist, it sends the add request and sets
\* isInWishlist true; in the wishlist, it sets isInWishlist false.
C28_ToggleNegatesWishlist ==
  pdLast.on =>
    /\ pdLast.after = ~pdLast.before
    /\ pdLast.posted = ~pdLast.before

\* C29: for useApi, once the most recently issued fetch has settled, loading is
\* false and error is non-null only if that fetch failed.
C29_ErrorOnlyIfLastFailed ==
  hookNewest \in {"ok", "failed"} =>
    /\ hookLoading = FALSE
    /\ hookError # None => hookNewest = "failed"

\* C30: in NotificationsAdmin at most one auto-refresh interval exists at any time;
\* while autoRefresh is on, no more than 30 seconds pass without a fetch, and the
\* fetch an interval issues carries the current priority and read filters; with
\* autoRefresh off or the page unmounted no interval is left and no periodic fetch
\* is issued; every change of priorityFilter or readFilter issues a fetch with the
\* new values.
C30_AutoRefreshInterval ==
  /\ [](Len(ntTimers) <= 1)
  /\ [](ntMounted /\ autoRefresh => Len(ntTimers) = 1 /\ ntSince <= RefreshMs)
  /\ []((~ntMounted \/ ~autoRefresh) => ntTimers = <<>>)
  /\ [][(ntSent' # ntSent /\ ntLast'.by = "interval") =>
          /\ ntMounted /\ autoRefresh
          /\ ntLast'.priority = priorityFilter' /\ ntLast'.read = readFilter']_vars
  /\ [][(priorityFilter' # priorityFilter \/ readFilter' # readFilter) =>
          /\ ntSent' > ntSent
          /\ ntLast' = [by |-> "effect", priority |-> priorityFilter',
                        read |-> readFilter']]_vars

\* The interval set after a filter change has fired.
C30_Witness ==
  /\ ntMounted /\ autoRefresh
  /\ priorityFilter # "all"
  /\ ntLast = [by |-> "interval", priority |-> priorityFilter, read |-> readFilter]
====
